---- MODULE Spec2Model ----
(***************************************************************************)
(* Model of ralphy: the client-side reconciliation protocol of the task   *)
(* editor (App component) together with the task-file endpoints of the     *)
(* local API server it talks to.                                           *)
(*                                                                         *)
(* JavaScript strings are modelled as sequences of one-character strings,  *)
(* so that trim, split, the story-id regular expression and padStart are   *)
(* computed and not assumed.  Serialized JSON is a sequence of tokens.     *)
(*                                                                         *)
(* A handler runs to completion on the event loop, and the render and      *)
(* effects its state updates cause are committed with it: each action is   *)
(* one handler (or one continuation after an await) plus that commit.      *)
(***************************************************************************)
EXTENDS Integers, Sequences, FiniteSets, Bags, TLC

(***************************************************************************)
(* Bounds of the exploration.                                              *)
(***************************************************************************)
MaxEdits == 2
MaxStories == 2
MaxPolls == 1
MaxSaves == 1
MaxStarts == 2
MaxSubscribers == 2
MaxChunks == 1
MaxTimers == 1
MaxEmitted == 503
MaxPuts == 2
MaxLineChunks == 2
MaxIds == 3
MaxStops == 2
MaxArg == 3

(***************************************************************************)
(* Strings.                                                                *)
(***************************************************************************)
NL == "\n"

IsSpace(c) == c \in {" ", NL}

RECURSIVE trimStart(_)
trimStart(s) ==
  IF Len(s) > 0 /\ IsSpace(s[1]) THEN trimStart(Tail(s)) ELSE s

RECURSIVE trimEnd(_)
trimEnd(s) ==
  IF Len(s) > 0 /\ IsSpace(s[Len(s)])
  THEN trimEnd(SubSeq(s, 1, Len(s) - 1))
  ELSE s

trim(s) == trimEnd(trimStart(s))

RECURSIVE split(_)
split(s) ==
  LET at == {i \in 1..Len(s) : s[i] = NL}
  IN  IF at = {} THEN <<s>>
      ELSE LET i == CHOOSE k \in at : \A m \in at : k <= m
           IN  <<SubSeq(s, 1, i - 1)>> \o split(SubSeq(s, i + 1, Len(s)))

RECURSIVE join(_)
join(items) ==
  IF Len(items) = 0 THEN <<>>
  ELSE IF Len(items) = 1 THEN items[1]
  ELSE items[1] \o <<NL>> \o join(Tail(items))

IsNonBlank(item) == Len(trim(item)) > 0

normalizeCriteria(value) ==
  LET parts == split(value)
      trimmed == [i \in 1..Len(parts) |-> trim(parts[i])]
  IN  SelectSeq(trimmed, LAMBDA item : Len(item) > 0)

DigitChars == <<"0", "1", "2", "3", "4", "5", "6", "7", "8", "9">>

IsDigit(c) == \E d \in 1..10 : DigitChars[d] = c

DigitVal(c) == (CHOOSE d \in 1..10 : DigitChars[d] = c) - 1

RECURSIVE parseInt(_)
parseInt(ds) ==
  IF Len(ds) = 0 THEN 0
  ELSE 10 * parseInt(SubSeq(ds, 1, Len(ds) - 1)) + DigitVal(ds[Len(ds)])

RECURSIVE NumberToString(_)
NumberToString(n) ==
  IF n < 10 THEN <<DigitChars[n + 1]>>
  ELSE NumberToString(n \div 10) \o <<DigitChars[(n % 10) + 1]>>

RECURSIVE padStart(_, _)
padStart(s, width) ==
  IF Len(s) >= width THEN s ELSE padStart(<<"0">> \o s, width)

Max(a, b) == IF a >= b THEN a ELSE b

(***************************************************************************)
(* Documents: TaskBranch[] with UserStory records, as JSON.parse returns   *)
(* them.  keys lists the required keys an object carries, in the order of  *)
(* its properties; a key that is not listed is missing (its field reads    *)
(* undefined, the record holds a placeholder).  notes is optional:         *)
(* hasNotes says whether the key is present.                               *)
(***************************************************************************)
StoryKeys == <<"id", "title", "acceptanceCriteria", "priority", "passes">>
BranchKeys == <<"branchName", "userStories">>

Story(id, title, criteria, priority, passes, hasNotes, notes) ==
  [id |-> id, title |-> title, acceptanceCriteria |-> criteria,
   priority |-> priority, passes |-> passes,
   hasNotes |-> hasNotes, notes |-> notes, keys |-> StoryKeys]

Branch(name, stories) ==
  [branchName |-> name, userStories |-> stories, keys |-> BranchKeys]

\* an object without properties
EmptyStory == [Story(<<>>, <<>>, <<>>, 0, FALSE, FALSE, <<>>) EXCEPT !.keys = <<>>]
EmptyBranch == [Branch(<<>>, <<>>) EXCEPT !.keys = <<>>]

\* key in obj
has(obj, key) == \E i \in 1..Len(obj.keys) : obj.keys[i] = key

NullId == <<"null">>
Null == <<>>

(***************************************************************************)
(* JSON.stringify and JSON.parse, over token sequences.  A token is a      *)
(* bracket, a key with its colon, a value, or white space: a line break    *)
(* followed by two blanks per level.  Commas follow from the structure.    *)
(***************************************************************************)
P(x) == <<"p", x>>
K(x) == <<"k", x>>
Str(s) == <<"s", s>>
Num(n) == <<"n", NumberToString(n)>>
Bool(b) == <<"b", IF b THEN "true" ELSE "false">>
W(depth) == <<"w", depth>>

IsWhite(tok) == tok[1] = "w" \/ tok = P(NL)
IsOpen(tok) == tok[1] = "p" /\ tok[2] \in {"{", "["}
IsClose(tok) == tok[1] = "p" /\ tok[2] \in {"}", "]"}

\* one property of a story, in the order of its keys
formatField(s, key) ==
  CASE key = "id" -> <<K("id"), Str(s.id)>>
    [] key = "title" -> <<K("title"), Str(s.title)>>
    [] key = "acceptanceCriteria" ->
         <<K("acceptanceCriteria"), P("[")>>
         \o [i \in 1..Len(s.acceptanceCriteria) |-> Str(s.acceptanceCriteria[i])]
         \o <<P("]")>>
    [] key = "priority" -> <<K("priority"), Num(s.priority)>>
    [] key = "passes" -> <<K("passes"), Bool(s.passes)>>

RECURSIVE formatFields(_, _)
formatFields(s, i) ==
  IF i > Len(s.keys) THEN <<>>
  ELSE formatField(s, s.keys[i]) \o formatFields(s, i + 1)

formatStory(s) ==
  <<P("{")>>
  \o formatFields(s, 1)
  \o (IF s.hasNotes THEN <<K("notes"), Str(s.notes)>> ELSE <<>>)
  \o <<P("}")>>

RECURSIVE formatStories(_)
formatStories(stories) ==
  IF Len(stories) = 0 THEN <<>>
  ELSE formatStory(stories[1]) \o formatStories(Tail(stories))

RECURSIVE formatBranchFields(_, _)
formatBranchFields(b, i) ==
  IF i > Len(b.keys) THEN <<>>
  ELSE (IF b.keys[i] = "branchName"
        THEN <<K("branchName"), Str(b.branchName)>>
        ELSE <<K("userStories"), P("[")>>
             \o formatStories(b.userStories) \o <<P("]")>>)
       \o formatBranchFields(b, i + 1)

formatBranch(b) == <<P("{")>> \o formatBranchFields(b, 1) \o <<P("}")>>

RECURSIVE formatBranches(_)
formatBranches(data) ==
  IF Len(data) = 0 THEN <<>>
  ELSE formatBranch(data[1]) \o formatBranches(Tail(data))

\* JSON.stringify(data): no white space
stringify(data) == <<P("[")>> \o formatBranches(data) \o <<P("]")>>

\* the white space JSON.stringify(..., null, 2) puts before token i: none
\* before the first token, after a key, and inside an empty array or object
RECURSIVE indentFrom(_, _, _)
indentFrom(t, i, depth) ==
  IF i > Len(t) THEN <<>>
  ELSE
    LET tok == t[i]
        level == IF IsClose(tok) THEN depth - 1 ELSE depth
        white == IF \/ i = 1
                    \/ t[i - 1][1] = "k"
                    \/ IsClose(tok) /\ IsOpen(t[i - 1])
                 THEN <<>>
                 ELSE <<W(level)>>
    IN  white \o <<tok>>
          \o indentFrom(t, i + 1, IF IsOpen(tok) THEN depth + 1 ELSE level)

indent(t) == indentFrom(t, 1, 0)

\* JSON.stringify(data, null, 2)
formatTasks(data) == indent(stringify(data))

\* JSON.parse skips the white space between tokens
skipWhite(text) == SelectSeq(text, LAMBDA tok : ~IsWhite(tok))

\* the items of a string array, from token i up to its closing bracket
RECURSIVE parseItems(_, _)
parseItems(t, i) ==
  IF t[i][1] = "s"
  THEN LET r == parseItems(t, i + 1)
       IN  [val |-> <<t[i][2]>> \o r.val, next |-> r.next]
  ELSE [val |-> <<>>, next |-> i + 1]

\* the properties of a story object, from the key at token i on
RECURSIVE parseFields(_, _, _)
parseFields(t, i, s) ==
  IF t[i][1] # "k" THEN [val |-> s, next |-> i + 1]
  ELSE
    LET key == t[i][2]
        keys == IF has(s, key) THEN s.keys ELSE Append(s.keys, key)
    IN  CASE key = "id" ->
               parseFields(t, i + 2, [s EXCEPT !.id = t[i + 1][2], !.keys = keys])
          [] key = "title" ->
               parseFields(t, i + 2,
                           [s EXCEPT !.title = t[i + 1][2], !.keys = keys])
          [] key = "acceptanceCriteria" ->
               LET items == parseItems(t, i + 2)
               IN  parseFields(t, items.next,
                               [s EXCEPT !.acceptanceCriteria = items.val,
                                         !.keys = keys])
          [] key = "priority" ->
               parseFields(t, i + 2,
                           [s EXCEPT !.priority = parseInt(t[i + 1][2]),
                                     !.keys = keys])
          [] key = "passes" ->
               parseFields(t, i + 2,
                           [s EXCEPT !.passes = (t[i + 1][2] = "true"),
                                     !.keys = keys])
          [] key = "notes" ->
               parseFields(t, i + 2,
                           [s EXCEPT !.hasNotes = TRUE, !.notes = t[i + 1][2]])

\* one story object starting at token i
parseStory(t, i) == parseFields(t, i + 1, EmptyStory)

RECURSIVE parseStories(_, _)
parseStories(t, i) ==
  IF t[i] = P("{")
  THEN LET s == parseStory(t, i)
           r == parseStories(t, s.next)
       IN  [val |-> <<s.val>> \o r.val, next |-> r.next]
  ELSE [val |-> <<>>, next |-> i + 1]

\* the properties of a branch object, from the key at token i on
RECURSIVE parseBranchFields(_, _, _)
parseBranchFields(t, i, b) ==
  IF t[i][1] # "k" THEN [val |-> b, next |-> i + 1]
  ELSE
    LET key == t[i][2]
        keys == IF has(b, key) THEN b.keys ELSE Append(b.keys, key)
    IN  IF key = "branchName"
        THEN parseBranchFields(t, i + 2,
               [b EXCEPT !.branchName = t[i + 1][2], !.keys = keys])
        ELSE LET stories == parseStories(t, i + 2)
             IN  parseBranchFields(t, stories.next,
                   [b EXCEPT !.userStories = stories.val, !.keys = keys])

RECURSIVE parseBranches(_, _)
parseBranches(t, i) ==
  IF t[i] = P("{")
  THEN LET b == parseBranchFields(t, i + 1, EmptyBranch)
           r == parseBranches(t, b.next)
       IN  [val |-> <<b.val>> \o r.val, next |-> r.next]
  ELSE [val |-> <<>>, next |-> i + 1]

\* JSON.parse: throws on the empty string, tolerates white space
JsonParses(text) == Len(skipWhite(text)) > 0 /\ skipWhite(text)[1] = P("[")

JsonParse(text) == parseBranches(skipWhite(text), 2).val

(***************************************************************************)
(* Number values of getNextStoryId.  A JavaScript number is a double: the  *)
(* integers up to 2^53 are exact, above it only every second one is a      *)
(* value, and an operation rounds to the nearest value, a tie to the one   *)
(* with the even significand.  A value is written as its decimal numeral   *)
(* without leading zeros, the way String(next) prints it.  The numerals of *)
(* the model stay below 2^54.                                              *)
(***************************************************************************)
TwoTo53 ==
  <<"9", "0", "0", "7", "1", "9", "9", "2", "5", "4", "7", "4", "0", "9",
    "9", "2">>

RECURSIVE stripZeros(_)
stripZeros(ds) ==
  IF Len(ds) > 1 /\ ds[1] = "0" THEN stripZeros(Tail(ds)) ELSE ds

numLess(a, b) ==
  \/ Len(a) < Len(b)
  \/ /\ Len(a) = Len(b)
     /\ \E i \in 1..Len(a) :
          /\ \A j \in 1..(i - 1) : a[j] = b[j]
          /\ DigitVal(a[i]) < DigitVal(b[i])

numMax(a, b) == IF numLess(a, b) THEN b ELSE a

\* the exact successor of a numeral
RECURSIVE numInc(_)
numInc(a) ==
  IF Len(a) = 0 THEN <<"1">>
  ELSE IF a[Len(a)] = "9"
  THEN numInc(SubSeq(a, 1, Len(a) - 1)) \o <<"0">>
  ELSE SubSeq(a, 1, Len(a) - 1) \o <<DigitChars[DigitVal(a[Len(a)]) + 2]>>

\* the remainder by 4 of a numeral of two or more digits
numMod4(a) == (10 * DigitVal(a[Len(a) - 1]) + DigitVal(a[Len(a)])) % 4

\* the double nearest to an integer below 2^54
roundDouble(a) ==
  IF ~numLess(TwoTo53, a) \/ DigitVal(a[Len(a)]) % 2 = 0 THEN a
  ELSE IF numMod4(numInc(a)) = 0 THEN numInc(a)
  ELSE SubSeq(a, 1, Len(a) - 1) \o <<DigitChars[DigitVal(a[Len(a)])]>>

\* Number.parseInt(candidateNumber, 10) of a string of digits
parseNumber(ds) == roundDouble(stripZeros(ds))

\* next + 1, next += 1
addOne(a) == roundDouble(numInc(a))

(***************************************************************************)
(* getNextStoryId.                                                         *)
(***************************************************************************)
StoryPrefix == <<"S", "T", "O", "R", "Y">>

\* story.id.match(/^(.*?)-(\d+)$/): the dash that is followed by digits only
matchStoryId(id) ==
  LET at == {p \in 1..Len(id) :
               /\ id[p] = "-"
               /\ p < Len(id)
               /\ \A q \in (p + 1)..Len(id) : IsDigit(id[q])
               /\ \A q \in 1..(p - 1) : id[q] # NL}
  IN  IF at = {} THEN [matched |-> FALSE, prefix |-> <<>>, number |-> <<>>]
      ELSE LET p == CHOOSE k \in at : \A m \in at : k <= m
           IN  [matched |-> TRUE,
                prefix |-> SubSeq(id, 1, p - 1),
                number |-> SubSeq(id, p + 1, Len(id))]

\* one pass of the for loop over the stories, from story i on
RECURSIVE scanStoryIds(_, _, _)
scanStoryIds(stories, i, acc) ==
  IF i > Len(stories) THEN acc
  ELSE
    LET m == matchStoryId(stories[i].id)
    IN  IF ~m.matched \/ Len(m.prefix) = 0
        THEN scanStoryIds(stories, i + 1, acc)
        ELSE
          LET adopt == acc.prefix = StoryPrefix
              prefix == IF adopt THEN m.prefix ELSE acc.prefix
              width == IF adopt THEN Len(m.number) ELSE acc.width
          IN  IF m.prefix # prefix
              THEN scanStoryIds(stories, i + 1,
                     [prefix |-> prefix, width |-> width, max |-> acc.max])
              ELSE scanStoryIds(stories, i + 1,
                     [prefix |-> prefix, width |-> width,
                      max |-> numMax(acc.max, parseNumber(m.number))])

candidateId(prefix, width, next) ==
  prefix \o <<"-">> \o padStart(next, width)

\* the call never returns: the while loop repeats with the same next
NoReturn == <<"(no return)">>

\* the while loop; next += 1 that leaves next as it was repeats the test of
\* the same candidate for ever
RECURSIVE firstFreeId(_, _, _, _)
firstFreeId(existing, prefix, width, next) ==
  IF candidateId(prefix, width, next) \in existing
  THEN IF addOne(next) = next
       THEN NoReturn
       ELSE firstFreeId(existing, prefix, width, addOne(next))
  ELSE candidateId(prefix, width, next)

getNextStoryId(stories) ==
  LET existing == {trim(stories[i].id) : i \in 1..Len(stories)} \ {<<>>}
      acc == scanStoryIds(stories, 1,
               [prefix |-> StoryPrefix, width |-> 3, max |-> <<"0">>])
  IN  firstFreeId(existing, acc.prefix, acc.width, addOne(acc.max))

(***************************************************************************)
(* Validation.  An error is a tuple naming the position; Null is no error. *)
(* The values of a document are of the right type wherever they are        *)
(* present, so of the typeof / Array.isArray tests only the ones a missing *)
(* field fails remain.  Reading a property of undefined throws.            *)
(***************************************************************************)
TypeError == <<"TypeError">>

storyError(story, index, storyIndex) ==
  IF ~has(story, "id") THEN TypeError
  ELSE IF ~IsNonBlank(story.id)
  THEN <<"Story", index, storyIndex, "needs an ID.">>
  ELSE IF ~has(story, "title") THEN TypeError
  ELSE IF ~IsNonBlank(story.title)
  THEN <<"Story", index, storyIndex, "needs a title.">>
  ELSE IF \/ ~has(story, "acceptanceCriteria")
          \/ ~\E k \in 1..Len(story.acceptanceCriteria) :
                IsNonBlank(story.acceptanceCriteria[k])
  THEN <<"Story", index, storyIndex, "needs at least one acceptance criterion.">>
  ELSE IF ~has(story, "priority") \/ story.priority <= 0
  THEN <<"Story", index, storyIndex, "priority must be positive.">>
  ELSE IF ~has(story, "passes")
  THEN <<"Story", index, storyIndex, "requires a pass/fail value.">>
  ELSE Null

\* a storiesError that goes on after an error and reports the last one
RECURSIVE storiesError_Last(_, _, _)
storiesError_Last(stories, index, storyIndex) ==
  IF storyIndex > Len(stories) THEN Null
  ELSE LET e == storyError(stories[storyIndex], index, storyIndex)
           rest == storiesError_Last(stories, index, storyIndex + 1)
       IN  IF rest # Null THEN rest ELSE e

RECURSIVE storiesError(_, _, _)
storiesError(stories, index, storyIndex) ==
  IF storyIndex > Len(stories) THEN Null
  ELSE LET e == storyError(stories[storyIndex], index, storyIndex)
       IN  IF e # Null THEN e ELSE storiesError(stories, index, storyIndex + 1)

RECURSIVE branchesError(_, _)
branchesError(payload, index) ==
  IF index > Len(payload) THEN Null
  ELSE IF ~has(payload[index], "branchName") THEN TypeError
  ELSE IF ~IsNonBlank(payload[index].branchName)
  THEN <<"Branch", index, "needs a name.">>
  ELSE IF ~has(payload[index], "userStories")
  THEN <<"Branch", index, "needs stories.">>
  ELSE LET e == storiesError(payload[index].userStories, index, 1)
       IN  IF e # Null THEN e ELSE branchesError(payload, index + 1)

validateTasksData(payload) ==
  IF Len(payload) = 0 THEN <<"No task branches loaded.">>
  ELSE branchesError(payload, 1)

\* the server's validation: positions are 0-based, values are only typed
serverStoryError(story, index, storyIndex) ==
  IF ~has(story, "id") \/ ~IsNonBlank(story.id)
  THEN <<"Story", index - 1, storyIndex - 1, "requires id">>
  ELSE IF ~has(story, "title") \/ ~IsNonBlank(story.title)
  THEN <<"Story", index - 1, storyIndex - 1, "requires title">>
  ELSE IF ~has(story, "acceptanceCriteria")
  THEN <<"Story", index - 1, storyIndex - 1, "requires acceptanceCriteria array">>
  ELSE IF ~has(story, "priority")
  THEN <<"Story", index - 1, storyIndex - 1, "requires priority number">>
  ELSE IF ~has(story, "passes")
  THEN <<"Story", index - 1, storyIndex - 1, "requires passes boolean">>
  ELSE Null

RECURSIVE serverStoriesError(_, _, _)
serverStoriesError(stories, index, storyIndex) ==
  IF storyIndex > Len(stories) THEN Null
  ELSE LET e == serverStoryError(stories[storyIndex], index, storyIndex)
       IN  IF e # Null THEN e
           ELSE serverStoriesError(stories, index, storyIndex + 1)

RECURSIVE serverBranchesError(_, _)
serverBranchesError(payload, index) ==
  IF index > Len(payload) THEN Null
  ELSE IF \/ ~has(payload[index], "branchName")
          \/ ~IsNonBlank(payload[index].branchName)
  THEN <<"Entry", index - 1, "requires branchName">>
  ELSE IF ~has(payload[index], "userStories")
  THEN <<"Entry", index - 1, "requires userStories array">>
  ELSE LET e == serverStoriesError(payload[index].userStories, index, 1)
       IN  IF e # Null THEN e ELSE serverBranchesError(payload, index + 1)

validateTasks(payload) == serverBranchesError(payload, 1)

(***************************************************************************)
(* The documents the external automation loop writes to tasks.json, and    *)
(* the values a user types into the form.                                  *)
(***************************************************************************)
IdS1 == <<"S", "-", "1">>
IdS2 == <<"S", "-", "2">>

DocA ==
  <<Branch(<<"m">>, <<Story(IdS1, <<"A">>, <<(<<"x">>)>>, 1, FALSE, FALSE, <<>>)>>)>>

DocB ==
  <<Branch(<<"m">>,
      <<Story(IdS1, <<"A">>, <<(<<"x">>)>>, 1, TRUE, TRUE, <<"n">>),
        Story(IdS2, <<"B">>, <<(<<"y">>)>>, 2, FALSE, FALSE, <<>>)>>)>>

\* what the file holds after a writer stored data: the text and a newline
fileOf(data) == Append(formatTasks(data), P(NL))

ExternalFiles == {fileOf(DocA), fileOf(DocB)}

IdValues == {IdS1, IdS2}
TitleValues == {<<>>, <<"A">>}
CriteriaValues == {<<>>, <<"x">>}
PriorityValues == {0, 1}
NotesValues == {<<>>, <<"n">>}

VARIABLES
  tasksData,        \* useState tasksData: the working copy
  selectedStoryId,  \* useState selectedStoryId
  dirty,            \* useState dirty
  locked,           \* useState locked
  dirtyRef,         \* dirtyRef.current
  serverTasksRef,   \* serverTasksRef.current: the last server snapshot
  saveState,        \* saveState.status
  tasksError,       \* useState tasksError
  file,             \* the text of scripts/ralph/tasks.json
  polls,            \* GET /api/tasks responses on their way to the client
  saves,            \* PUT /api/tasks requests and responses in flight
  lastOp,           \* history: the client operation that ran last, and for
                    \* a snapshot the state it met and whether it differed
  lastObserved,     \* history: the last snapshot loadTasks handed over
  savedCopy,        \* history: the working copy as last adopted or stored
  editHist,         \* history: an edit of a synced copy and its revert
  nEdits            \* history: how many edits were made

VARIABLES
  progressFile,     \* the text of scripts/ralph/progress.txt
  progressPolls,    \* GET /api/progress responses on their way to the client
  progressRef,      \* progressRef.current: the last progress text forwarded
  progress,         \* useState progress: the text the log panel shows
  progressError,    \* useState progressError
  forwarded         \* history: the last loadProgress called setProgress

VARIABLES
  runner,           \* let runner: the active record, or null
  children,         \* the child processes spawned so far, by spawn order
  timers,           \* the children with a pending grace timeout
  logBuffer,        \* const logBuffer
  logClients,       \* const logClients: a Set, in insertion order
  conn,             \* the connection of each event-stream request
  inbox,            \* the events written to each open connection
  lastReq,          \* history: the API request handled last and its answer
  lastEvents,       \* history: the events the last step broadcast
  lastRun,          \* history: the child whose lines the last step appended
  emitted           \* history: how many lines were appended so far

VARIABLES
  hung,             \* a handler of the page is inside a call that never
                    \* returns: the page handles nothing further
  runnerLogs,       \* useState runnerLogs: the lines the runner panel shows
  runnerError,      \* useState runnerError
  pageStatus,       \* useState runnerStatus
  stream,           \* the connection the page's EventSource holds, 0: none
  seen              \* how many events of that connection the page handled

VARIABLES
  arg2,             \* $2 of ralph.sh: <<n>> for a number n, or Unset
  MAX_ITERATIONS,   \* the script's MAX_ITERATIONS
  iteration,        \* the script's i
  OUTPUT,           \* the script's OUTPUT: the lines captured
  pc,               \* the command the script is at
  exitCode,         \* the exit status of the script, -1 while it runs
  said,             \* the last line the script itself echoed
  raw,              \* history: the lines the agent wrote in this iteration
  agentStatus       \* history: the exit status of the agent pipeline

VARIABLES
  polling,          \* pollingRef.current holds an interval that was not cleared
  candidate,        \* the document a validation or a PUT request is given
  verdict,          \* what validateTasksData returned for candidate
  putAnswer         \* the last PUT of candidate: its body, the status of the
                    \* answer, and how many were answered

clientVars ==
  <<tasksData, selectedStoryId, dirty, locked, dirtyRef, serverTasksRef,
    saveState, tasksError>>
serverVars == <<file, polls, saves>>
histVars == <<lastOp, lastObserved, savedCopy, editHist, nEdits>>
progressVars ==
  <<progressFile, progressPolls, progressRef, progress, progressError,
    forwarded>>
runnerVars ==
  <<runner, children, timers, logBuffer, logClients, conn, inbox, lastReq,
    lastEvents, lastRun, emitted>>
lifeVars == <<polling>>
apiVars == <<candidate, verdict, putAnswer>>
viewVars == <<runnerLogs, runnerError, pageStatus, stream, seen>>
loopVars ==
  <<arg2, MAX_ITERATIONS, iteration, OUTPUT, pc, exitCode, said, raw,
    agentStatus>>
extraVars == <<hung, viewVars, loopVars>>
vars ==
  <<clientVars, serverVars, histVars, progressVars, runnerVars, lifeVars,
    apiVars, extraVars>>

(***************************************************************************)
(* The progress text, the runner and the log fan-out before anything ran.  *)
(***************************************************************************)
\* the texts the automation loop leaves in progress.txt
ProgressTexts == {"one", "one two"}

InitProgress ==
  /\ progressFile = "one"
  /\ progressPolls = EmptyBag
  /\ progressRef = ""
  /\ progress = "Loading progress..."
  /\ progressError = Null
  /\ forwarded = FALSE

Subscribers == 1..MaxSubscribers

\* let runner = null: no child
NullRunner == [child |-> 0, command |-> <<>>, args |-> <<>>]

\* a child process that was not spawned yet
NoChild ==
  [state |-> "none", handle |-> FALSE, killed |-> FALSE, trapsTerm |-> FALSE,
   pipe |-> <<>>, written |-> 0,
   signal |-> "null", exitSeen |-> FALSE, errorSeen |-> FALSE,
   sigterm |-> FALSE, sigkill |-> FALSE, graceAlive |-> FALSE]

NoReq == [op |-> "none", command |-> <<>>, active |-> FALSE, result |-> ""]

InitRunner ==
  /\ runner = NullRunner
  /\ children = [id \in 1..MaxStarts |-> NoChild]
  /\ timers = EmptyBag
  /\ logBuffer = <<>>
  /\ logClients = <<>>
  /\ conn = [s \in Subscribers |-> "none"]
  /\ inbox = [s \in Subscribers |-> <<>>]
  /\ lastReq = NoReq
  /\ lastEvents = <<>>
  /\ lastRun = 0
  /\ emitted = 0

\* validateTasksData was not called yet
NotChecked == <<"none">>

\* no PUT was answered yet
NoAnswer == [status |-> 0, n |-> 0, body |-> <<>>, error |-> <<>>]

\* the answer to a PUT with this body
Answer(status, text, error) ==
  [status |-> status, n |-> putAnswer.n + 1, body |-> text, error |-> error]

\* the interval is set at mount; no document was validated or PUT yet
InitApi ==
  /\ polling = TRUE
  /\ candidate = <<>>
  /\ verdict = NotChecked
  /\ putAnswer = NoAnswer

\* $2 was not given, or is empty
Unset == <<>>

\* ralph.sh before its first command, called with one of these as $2
InitScript(args) ==
  /\ arg2 \in args
  /\ MAX_ITERATIONS = 0
  /\ iteration = 0
  /\ OUTPUT = <<>>
  /\ pc = "start"
  /\ exitCode = -1
  /\ said = ""
  /\ raw = <<>>
  /\ agentStatus = 0

\* no handler is running; the runner panel before its EventSource connects
InitPage ==
  /\ hung = FALSE
  /\ runnerLogs = <<>>
  /\ runnerError = Null
  /\ pageStatus = [running |-> FALSE, command |-> Null]
  /\ stream = 0
  /\ seen = 0

InitExtra ==
  /\ InitPage
  /\ InitScript({Unset})

\* the state of the reconciler, by the names the design gives
StateName == IF locked THEN "Locked" ELSE IF dirty THEN "Editing" ELSE "Synced"

Op(name) == [op |-> name, was |-> "", changed |-> FALSE]

NoEdit == [phase |-> "none", field |-> "", orig |-> <<>>]

InitReconciler ==
  /\ tasksData = <<>>
  /\ selectedStoryId = NullId
  /\ dirty = FALSE
  /\ locked = FALSE
  /\ dirtyRef = FALSE
  /\ serverTasksRef = <<>>
  /\ saveState = "idle"
  /\ tasksError = Null
  /\ file = fileOf(DocA)
  /\ polls = EmptyBag
  /\ saves = EmptyBag
  /\ lastOp = Op("other")
  /\ lastObserved = <<>>
  /\ savedCopy = formatTasks(<<>>)
  /\ editHist = NoEdit
  /\ nEdits = 0

Init ==
  /\ InitReconciler
  /\ InitProgress
  /\ InitRunner
  /\ InitApi
  /\ InitExtra

(***************************************************************************)
(* Derived values of a render.                                             *)
(***************************************************************************)
HasActiveBranch == Len(tasksData) > 0

\* currentStory, as its position among the active branch's stories (0: null)
currentStoryIndex ==
  IF ~HasActiveBranch THEN 0
  ELSE LET stories == tasksData[1].userStories
           hits == {i \in 1..Len(stories) : stories[i].id = selectedStoryId}
       IN  IF hits # {} THEN CHOOSE i \in hits : \A k \in hits : i <= k
           ELSE IF Len(stories) > 0 THEN 1
           ELSE 0

currentStory == tasksData[1].userStories[currentStoryIndex]

validationError == validateTasksData(tasksData)

\* a canSave that forgets the lock
canSave_IgnoresLock ==
  /\ dirty
  /\ validationError = Null
  /\ saveState # "saving"

canSave ==
  /\ ~locked
  /\ dirty
  /\ validationError = Null
  /\ saveState # "saving"

\* what the form control of a field shows for the current story
fieldValue(field) ==
  CASE field = "id" -> currentStory.id
    [] field = "title" -> currentStory.title
    [] field = "acceptanceCriteria" -> join(currentStory.acceptanceCriteria)
    [] field = "priority" -> currentStory.priority
    [] field = "passes" -> currentStory.passes
    [] field = "notes" -> IF currentStory.hasNotes THEN currentStory.notes ELSE <<>>

\* the updater each onChange handler passes to updateCurrentStory
applyUpdater(story, field, value) ==
  CASE field = "id" -> [story EXCEPT !.id = value]
    [] field = "title" -> [story EXCEPT !.title = value]
    [] field = "acceptanceCriteria" ->
         [story EXCEPT !.acceptanceCriteria = normalizeCriteria(value)]
    [] field = "priority" -> [story EXCEPT !.priority = value]
    [] field = "passes" -> [story EXCEPT !.passes = value]
    [] field = "notes" -> [story EXCEPT !.hasNotes = TRUE, !.notes = value]

(***************************************************************************)
(* The poller: loadTasks and handleServerTasks.                            *)
(***************************************************************************)
\* The interval callback keeps the loadTasks of the first render, so the
\* selectedStoryId that handleServerTasks reads is the one of the mount.
selectedAtMount == NullId

adoptSnapshot(parsed) ==
  /\ tasksData' = parsed
  /\ dirty' = FALSE
  /\ dirtyRef' = FALSE
  /\ locked' = FALSE
  /\ saveState' = "idle"
  /\ selectedStoryId' =
       IF /\ selectedAtMount = NullId
          /\ Len(parsed) > 0
          /\ Len(parsed[1].userStories) > 0
       THEN parsed[1].userStories[1].id
       ELSE selectedStoryId

\* a handleServerTasks that adopts the snapshot without looking at dirtyRef
handleServerTasks_IgnoresDirty(next, parsed) ==
  IF next = serverTasksRef
  THEN UNCHANGED <<serverTasksRef, tasksData, dirty, dirtyRef, locked,
                   saveState, selectedStoryId>>
  ELSE /\ serverTasksRef' = next
       /\ adoptSnapshot(parsed)

\* a handleServerTasks that locks only when not yet locked
handleServerTasks_AdoptsWhileLocked(next, parsed) ==
  IF next = serverTasksRef
  THEN UNCHANGED <<serverTasksRef, tasksData, dirty, dirtyRef, locked,
                   saveState, selectedStoryId>>
  ELSE
    /\ serverTasksRef' = next
    /\ IF dirtyRef /\ ~locked
       THEN /\ locked' = TRUE
            /\ UNCHANGED <<tasksData, dirty, dirtyRef, saveState,
                           selectedStoryId>>
       ELSE adoptSnapshot(parsed)

\* a handleServerTasks that returns early while locked
handleServerTasks_DropsWhileLocked(next, parsed) ==
  IF next = serverTasksRef \/ locked
  THEN UNCHANGED <<serverTasksRef, tasksData, dirty, dirtyRef, locked,
                   saveState, selectedStoryId>>
  ELSE
    /\ serverTasksRef' = next
    /\ IF dirtyRef
       THEN /\ locked' = TRUE
            /\ UNCHANGED <<tasksData, dirty, dirtyRef, saveState,
                           selectedStoryId>>
       ELSE adoptSnapshot(parsed)

\* a handleServerTasks that records the snapshot and forgets setTasksData
handleServerTasks_KeepsCopy(next, parsed) ==
  IF next = serverTasksRef
  THEN UNCHANGED <<serverTasksRef, tasksData, dirty, dirtyRef, locked,
                   saveState, selectedStoryId>>
  ELSE
    /\ serverTasksRef' = next
    /\ IF dirtyRef
       THEN /\ locked' = TRUE
            /\ UNCHANGED <<tasksData, dirty, dirtyRef, saveState,
                           selectedStoryId>>
       ELSE /\ dirty' = FALSE
            /\ dirtyRef' = FALSE
            /\ locked' = FALSE
            /\ saveState' = "idle"
            /\ UNCHANGED <<tasksData, selectedStoryId>>

\* a handleServerTasks without the equality test at its top
handleServerTasks_LocksOnEqual(next, parsed) ==
  /\ serverTasksRef' = next
  /\ IF dirtyRef
     THEN /\ locked' = TRUE
          /\ UNCHANGED <<tasksData, dirty, dirtyRef, saveState,
                         selectedStoryId>>
     ELSE adoptSnapshot(parsed)

handleServerTasks(next, parsed) ==
  IF next = serverTasksRef
  THEN UNCHANGED <<serverTasksRef, tasksData, dirty, dirtyRef, locked,
                   saveState, selectedStoryId>>
  ELSE
    /\ serverTasksRef' = next
    /\ IF dirtyRef
       THEN /\ locked' = TRUE
            /\ UNCHANGED <<tasksData, dirty, dirtyRef, saveState,
                           selectedStoryId>>
       ELSE adoptSnapshot(parsed)

\* GET /api/tasks on the server: read the file, JSON.parse it, and sendJson
\* what was parsed
LoadTasksFetch ==
  /\ polling
  /\ BagCardinality(polls) < MaxPolls
  /\ polls' = polls (+) SetToBag({stringify(JsonParse(file))})
  /\ UNCHANGED <<clientVars, file, saves, histVars>>
  /\ UNCHANGED <<progressVars, runnerVars, lifeVars, apiVars, extraVars>>

\* the response arrives while the component is mounted: response.json(),
\* formatTasks, handleServerTasks
LoadTasksResponse ==
  \E body \in BagToSet(polls) :
    LET data == JsonParse(body)
        formatted == formatTasks(data)
    IN  /\ polling
        /\ polls' = polls (-) SetToBag({body})
        /\ handleServerTasks(formatted, data)
        /\ tasksError' = Null
        /\ lastOp' = [op |-> "serverTasks", was |-> StateName,
                       changed |-> formatted # serverTasksRef]
        /\ lastObserved' = formatted
        /\ savedCopy' = IF tasksData' # tasksData THEN formatted ELSE savedCopy
        /\ editHist' = NoEdit
        /\ UNCHANGED <<file, saves, nEdits>>
        /\ UNCHANGED <<progressVars, runnerVars, lifeVars, apiVars, extraVars>>

\* a loadTasks whose catch block also clears the interval
LoadTasksFail_StopsTimer ==
  /\ tasksError' = <<"Failed to load tasks.json">>
  /\ polling' = FALSE
  /\ lastOp' = Op("tasksFail")
  /\ editHist' = NoEdit
  /\ UNCHANGED <<tasksData, selectedStoryId, dirty, locked, dirtyRef,
                 serverTasksRef, saveState, serverVars, lastObserved,
                 savedCopy, nEdits>>
  /\ UNCHANGED <<progressVars, runnerVars, apiVars, extraVars>>

\* the fetch rejects or the response is not ok: only tasksError changes, which
\* the reconciler never reads
LoadTasksFail ==
  /\ tasksError' = <<"Failed to load tasks.json">>
  /\ lastOp' = Op("tasksFail")
  /\ editHist' = NoEdit
  /\ UNCHANGED <<tasksData, selectedStoryId, dirty, locked, dirtyRef,
                 serverTasksRef, saveState, serverVars, lastObserved,
                 savedCopy, nEdits>>
  /\ UNCHANGED <<progressVars, runnerVars, lifeVars, apiVars, extraVars>>

\* the automation loop rewrites tasks.json
ExternalWrite ==
  /\ file' \in ExternalFiles \ {file}
  /\ UNCHANGED <<clientVars, polls, saves, histVars>>
  /\ UNCHANGED <<progressVars, runnerVars, lifeVars, apiVars, extraVars>>

\* the cleanup of the polling effect, run when the component unmounts:
\* clearInterval; requests that were sent stay in flight
Unmount ==
  /\ polling
  /\ polling' = FALSE
  /\ lastOp' = Op("unmount")
  /\ editHist' = NoEdit
  /\ UNCHANGED <<clientVars, serverVars, lastObserved, savedCopy, nEdits>>
  /\ UNCHANGED <<progressVars, runnerVars, apiVars, extraVars>>

\* a tasks response arrives after the cleanup: loadTasks goes on as before
\* and calls handleServerTasks; the assignment to serverTasksRef.current is
\* made, the state setters of the unmounted component have no effect
LateTasksResponse ==
  \E body \in BagToSet(polls) :
    LET formatted == formatTasks(JsonParse(body))
    IN  /\ ~polling
        /\ polls' = polls (-) SetToBag({body})
        /\ serverTasksRef' = formatted
        /\ lastOp' = [op |-> "lateTasks", was |-> StateName,
                       changed |-> formatted # serverTasksRef]
        /\ lastObserved' = formatted
        /\ editHist' = NoEdit
        /\ UNCHANGED <<tasksData, selectedStoryId, dirty, locked, dirtyRef,
                       saveState, tasksError, file, saves, savedCopy, nEdits>>
        /\ UNCHANGED <<progressVars, runnerVars, lifeVars, apiVars, extraVars>>

\* a progress response arrives after the cleanup: progressRef.current is
\* assigned, setProgress has no effect
LateProgressResponse ==
  \E text \in BagToSet(progressPolls) :
    /\ ~polling
    /\ progressPolls' = progressPolls (-) SetToBag({text})
    /\ progressRef' = text
    /\ forwarded' = FALSE
    /\ lastOp' = Op("lateProgress")
    /\ editHist' = NoEdit
    /\ UNCHANGED <<progressFile, progress, progressError>>
    /\ UNCHANGED <<clientVars, serverVars, lastObserved, savedCopy, nEdits,
                   runnerVars, lifeVars, apiVars, extraVars>>

\* the same document with the keys of every object in the opposite order
reverse(s) == [i \in 1..Len(s) |-> s[Len(s) + 1 - i]]

reorderKeys(doc) ==
  [b \in 1..Len(doc) |->
     [doc[b] EXCEPT
        !.keys = reverse(@),
        !.userStories = [s \in 1..Len(@) |-> [@[s] EXCEPT !.keys = reverse(@)]]]]

\* the texts that hold the document of this text: indented or compact, with
\* the keys in either order
Reformats(text) ==
  LET doc == JsonParse(text)
  IN  {fileOf(doc), stringify(doc),
       fileOf(reorderKeys(doc)), stringify(reorderKeys(doc))}

\* another program rewrites tasks.json without changing what it says
ExternalReformat ==
  /\ file' \in Reformats(file) \ {file}
  /\ UNCHANGED <<clientVars, polls, saves, histVars>>
  /\ UNCHANGED <<progressVars, runnerVars, lifeVars, apiVars, extraVars>>

(***************************************************************************)
(* The form: field edits, story selection, add story.                      *)
(***************************************************************************)
updateCurrentStory(field, value) ==
  LET updated ==
        [b \in 1..Len(tasksData) |->
           IF tasksData[b].branchName # tasksData[1].branchName
           THEN tasksData[b]
           ELSE [tasksData[b] EXCEPT !.userStories =
                   [s \in 1..Len(tasksData[b].userStories) |->
                      IF tasksData[b].userStories[s].id = currentStory.id
                      THEN applyUpdater(tasksData[b].userStories[s], field, value)
                      ELSE tasksData[b].userStories[s]]]]
  IN  /\ tasksData' = updated
      /\ dirty' = (formatTasks(updated) # serverTasksRef)
      /\ dirtyRef' = dirty'

\* an onChange of a form control: the form is shown for the current story,
\* the controls are read-only while locked, and a change event carries a
\* value other than the one shown
EditField(field, value) ==
  /\ currentStoryIndex > 0
  /\ ~locked
  /\ value # fieldValue(field)
  /\ nEdits < MaxEdits
  /\ updateCurrentStory(field, value)
  /\ nEdits' = nEdits + 1
  /\ lastOp' = Op("other")
  /\ editHist' =
       IF ~dirty /\ formatTasks(tasksData) = serverTasksRef
       THEN [phase |-> "edited", field |-> field, orig |-> fieldValue(field)]
       ELSE IF /\ editHist.phase = "edited"
               /\ editHist.field = field
               /\ editHist.orig = value
       THEN [editHist EXCEPT !.phase = "reverted"]
       ELSE NoEdit
  /\ UNCHANGED <<selectedStoryId, locked, serverTasksRef, saveState,
                 tasksError, serverVars, lastObserved, savedCopy>>
  /\ UNCHANGED <<progressVars, runnerVars, lifeVars, apiVars, extraVars>>

EditId == \E value \in IdValues : EditField("id", value)
EditTitle == \E value \in TitleValues : EditField("title", value)
EditCriteria == \E value \in CriteriaValues : EditField("acceptanceCriteria", value)
EditPriority == \E value \in PriorityValues : EditField("priority", value)
EditPasses == \E value \in BOOLEAN : EditField("passes", value)
EditNotes == \E value \in NotesValues : EditField("notes", value)

\* a click on a story card
SelectStory ==
  /\ HasActiveBranch
  /\ ~locked
  /\ \E i \in 1..Len(tasksData[1].userStories) :
       /\ tasksData[1].userStories[i].id # selectedStoryId
       /\ selectedStoryId' = tasksData[1].userStories[i].id
  /\ lastOp' = Op("other")
  /\ editHist' = NoEdit
  /\ UNCHANGED <<tasksData, dirty, locked, dirtyRef, serverTasksRef,
                 saveState, tasksError, serverVars, lastObserved, savedCopy,
                 nEdits>>
  /\ UNCHANGED <<progressVars, runnerVars, lifeVars, apiVars, extraVars>>

NewStoryTitle == <<"N", "e", "w", " ", "s", "t", "o", "r", "y">>
NewStoryCriterion ==
  <<"D", "e", "f", "i", "n", "e", " ", "a", "c", "c", "e", "p", "t", "a", "n",
    "c", "e", " ", "c", "r", "i", "t", "e", "r", "i", "a">>

handleAddStory ==
  LET nextId == getNextStoryId(tasksData[1].userStories)
      newStory == Story(nextId, NewStoryTitle, <<NewStoryCriterion>>, 1,
                        FALSE, TRUE, <<>>)
      updated ==
        [b \in 1..Len(tasksData) |->
           IF tasksData[b].branchName = tasksData[1].branchName
           THEN [tasksData[b] EXCEPT
                   !.userStories = Append(tasksData[b].userStories, newStory)]
           ELSE tasksData[b]]
  IN  /\ nextId # NoReturn
      /\ tasksData' = updated
      /\ selectedStoryId' = nextId
      /\ dirty' = (formatTasks(updated) # serverTasksRef)
      /\ dirtyRef' = dirty'
      /\ saveState' = "idle"

\* an add-story handler that does not look at locked
AddStory_IgnoresLock ==
  /\ HasActiveBranch
  /\ Len(tasksData[1].userStories) < MaxStories
  /\ nEdits < MaxEdits
  /\ handleAddStory
  /\ nEdits' = nEdits + 1
  /\ lastOp' = Op("other")
  /\ editHist' = NoEdit
  /\ UNCHANGED <<locked, serverTasksRef, tasksError, serverVars,
                 lastObserved, savedCopy>>
  /\ UNCHANGED <<progressVars, runnerVars, lifeVars, apiVars, extraVars>>

AddStory ==
  /\ HasActiveBranch
  /\ ~locked
  /\ Len(tasksData[1].userStories) < MaxStories
  /\ nEdits < MaxEdits
  /\ handleAddStory
  /\ nEdits' = nEdits + 1
  /\ lastOp' = Op("other")
  /\ editHist' = NoEdit
  /\ UNCHANGED <<locked, serverTasksRef, tasksError, serverVars,
                 lastObserved, savedCopy>>
  /\ UNCHANGED <<progressVars, runnerVars, lifeVars, apiVars, extraVars>>

(***************************************************************************)
(* Save and reload.                                                        *)
(***************************************************************************)
\* handleSave up to the await: the button is enabled by canSave
SaveRequest ==
  /\ canSave
  /\ BagCardinality(saves) < MaxSaves
  /\ IF validateTasksData(tasksData) # Null
     THEN /\ saveState' = "error"
          /\ UNCHANGED saves
     ELSE /\ saveState' = "saving"
          /\ saves' = saves (+) SetToBag({[body |-> tasksData, st |-> "sent"]})
  /\ lastOp' = Op("other")
  /\ editHist' = NoEdit
  /\ UNCHANGED <<tasksData, selectedStoryId, dirty, locked, dirtyRef,
                 serverTasksRef, tasksError, file, polls, lastObserved,
                 savedCopy, nEdits>>
  /\ UNCHANGED <<progressVars, runnerVars, lifeVars, apiVars, extraVars>>

\* a PUT handler that writes the serialization without the line break
ServerPutTasks_NoNewline ==
  \E s \in BagToSet(saves) :
    LET payload == JsonParse(formatTasks(s.body))
    IN
    /\ s.st = "sent"
    /\ IF validateTasks(payload) # Null
       THEN /\ saves' = (saves (-) SetToBag({s}))
                          (+) SetToBag({[s EXCEPT !.st = "fail"]})
            /\ UNCHANGED file
       ELSE /\ file' = formatTasks(payload)
            /\ saves' = (saves (-) SetToBag({s}))
                          (+) SetToBag({[s EXCEPT !.st = "ok"]})
    /\ UNCHANGED <<clientVars, polls, histVars>>
    /\ UNCHANGED <<progressVars, runnerVars, lifeVars, apiVars, extraVars>>

\* PUT /api/tasks on the server: the body is the text handleSave sent;
\* readJsonBody parses it, then validate, then write the file
ServerPutTasks ==
  \E s \in BagToSet(saves) :
    LET payload == JsonParse(formatTasks(s.body))
    IN
    /\ s.st = "sent"
    /\ IF validateTasks(payload) # Null
       THEN /\ saves' = (saves (-) SetToBag({s}))
                          (+) SetToBag({[s EXCEPT !.st = "fail"]})
            /\ UNCHANGED file
       ELSE /\ file' = fileOf(payload)
            /\ saves' = (saves (-) SetToBag({s}))
                          (+) SetToBag({[s EXCEPT !.st = "ok"]})
    /\ UNCHANGED <<clientVars, polls, histVars>>
    /\ UNCHANGED <<progressVars, runnerVars, lifeVars, apiVars, extraVars>>

\* the request does not reach the file: the write throws or the fetch fails
ServerPutFails ==
  \E s \in BagToSet(saves) :
    /\ s.st = "sent"
    /\ saves' = (saves (-) SetToBag({s}))
                  (+) SetToBag({[s EXCEPT !.st = "fail"]})
    /\ UNCHANGED <<clientVars, file, polls, histVars>>
    /\ UNCHANGED <<progressVars, runnerVars, lifeVars, apiVars, extraVars>>

\* the server wrote the file and answered 200, but the answer does not reach
\* the client: fetch rejects and handleSave goes to its catch block
SaveResponseLost ==
  \E s \in BagToSet(saves) :
    /\ s.st = "ok"
    /\ putAnswer.n < MaxPuts
    /\ saves' = (saves (-) SetToBag({s}))
                  (+) SetToBag({[s EXCEPT !.st = "fail"]})
    /\ putAnswer' = Answer(200, formatTasks(s.body), Null)
    /\ UNCHANGED <<clientVars, file, polls, histVars, candidate, verdict>>
    /\ UNCHANGED <<progressVars, runnerVars, lifeVars, extraVars>>

\* handleSave after the await, with the tasksData of the render that started it
handleSaveResponse(s) ==
  IF s.st = "ok"
  THEN /\ serverTasksRef' = formatTasks(s.body)
       /\ dirty' = FALSE
       /\ dirtyRef' = FALSE
       /\ locked' = FALSE
       /\ saveState' = "success"
  ELSE /\ saveState' = "error"
       /\ UNCHANGED <<serverTasksRef, dirty, dirtyRef, locked>>

SaveResponse ==
  \E s \in BagToSet(saves) :
    /\ s.st # "sent"
    /\ saves' = saves (-) SetToBag({s})
    /\ handleSaveResponse(s)
    /\ lastOp' = Op(IF s.st = "ok" THEN "saveOk" ELSE "other")
    /\ savedCopy' = IF s.st = "ok" THEN formatTasks(s.body) ELSE savedCopy
    /\ editHist' = NoEdit
    /\ UNCHANGED <<tasksData, selectedStoryId, tasksError, file, polls,
                   lastObserved, nEdits>>
    /\ UNCHANGED <<progressVars, runnerVars, lifeVars, apiVars, extraVars>>

\* a handleReload that clears the flags and keeps the working copy
handleReload_KeepsCopy ==
  /\ dirty' = FALSE
  /\ dirtyRef' = FALSE
  /\ locked' = FALSE
  /\ saveState' = "idle"
  /\ UNCHANGED tasksData

handleReload ==
  /\ tasksData' = IF JsonParses(serverTasksRef)
                  THEN JsonParse(serverTasksRef)
                  ELSE <<>>
  /\ dirty' = FALSE
  /\ dirtyRef' = FALSE
  /\ locked' = FALSE
  /\ saveState' = "idle"

\* the reload button is part of the banner shown while locked
Reload ==
  /\ locked
  /\ handleReload
  /\ lastOp' = Op("reload")
  /\ savedCopy' = formatTasks(tasksData')
  /\ editHist' = NoEdit
  /\ UNCHANGED <<selectedStoryId, serverTasksRef, tasksError, serverVars,
                 lastObserved, nEdits>>
  /\ UNCHANGED <<progressVars, runnerVars, lifeVars, apiVars, extraVars>>

(***************************************************************************)
(* The progress poller: loadProgress.                                      *)
(***************************************************************************)
\* GET /api/progress on the server: read the file and send it as text
LoadProgressFetch ==
  /\ polling
  /\ BagCardinality(progressPolls) < MaxPolls
  /\ progressPolls' = progressPolls (+) SetToBag({progressFile})
  /\ UNCHANGED <<progressFile, progressRef, progress, progressError,
                 forwarded>>
  /\ UNCHANGED <<clientVars, serverVars, histVars, runnerVars, lifeVars,
                 apiVars, extraVars>>

\* loadProgress once response.text() resolved: forward a text that differs
handleProgressText(text) ==
  IF text # progressRef
  THEN /\ progressRef' = text
       /\ progress' = text
       /\ forwarded' = TRUE
  ELSE /\ UNCHANGED <<progressRef, progress>>
       /\ forwarded' = FALSE

LoadProgressResponse ==
  \E text \in BagToSet(progressPolls) :
    /\ polling
    /\ progressPolls' = progressPolls (-) SetToBag({text})
    /\ handleProgressText(text)
    /\ progressError' = Null
    /\ lastOp' = Op("progress")
    /\ editHist' = NoEdit
    /\ UNCHANGED <<progressFile, clientVars, serverVars, lastObserved,
                   savedCopy, nEdits, runnerVars, lifeVars, apiVars, extraVars>>

\* the fetch rejects or the response is not ok
LoadProgressFail ==
  /\ progressError' = <<"Failed to load progress.txt">>
  /\ lastOp' = Op("progressFail")
  /\ editHist' = NoEdit
  /\ UNCHANGED <<progressFile, progressPolls, progressRef, progress,
                 forwarded>>
  /\ UNCHANGED <<clientVars, serverVars, lastObserved, savedCopy, nEdits,
                 runnerVars, lifeVars, apiVars, extraVars>>

\* the automation loop rewrites progress.txt
ProgressWrite ==
  /\ progressFile' \in ProgressTexts \ {progressFile}
  /\ UNCHANGED <<progressPolls, progressRef, progress, progressError,
                 forwarded>>
  /\ UNCHANGED <<clientVars, serverVars, histVars, runnerVars, lifeVars,
                 apiVars, extraVars>>

(***************************************************************************)
(* The server: log buffer and fan-out.  A line is a sequence of pieces of  *)
(* text; a line break, a carriage return and a blank are pieces of their   *)
(* own wherever the code looks for them.                                   *)
(***************************************************************************)
maxLogLines == 500

CR == "\r"

stripCR(s) ==
  IF Len(s) > 0 /\ s[Len(s)] = CR THEN SubSeq(s, 1, Len(s) - 1) ELSE s

\* chunk.toString().split(/\r?\n/)
splitLines(chunk) ==
  LET parts == split(chunk)
  IN  [i \in 1..Len(parts) |->
         IF i < Len(parts) THEN stripCR(parts[i]) ELSE parts[i]]

\* the lines appendLog keeps of a chunk: the non-empty ones, in order
logLines(chunk) == SelectSeq(splitLines(chunk), LAMBDA line : Len(line) > 0)

\* a pushLine that never evicts
pushLine_NoEvict(buffer, line) == Append(buffer, line)

\* logBuffer.push(line), then shift() when the buffer grew past maxLogLines
pushLine(buffer, line) ==
  LET pushed == Append(buffer, line)
  IN  IF Len(pushed) > maxLogLines THEN Tail(pushed) ELSE pushed

RECURSIVE pushLines(_, _)
pushLines(buffer, lines) ==
  IF Len(lines) = 0 THEN buffer
  ELSE pushLines(pushLine(buffer, lines[1]), Tail(lines))

StatusEvent(r) ==
  [event |-> "status", running |-> r.child # 0, command |-> r.command,
   line |-> <<>>]

LogEvent(text) ==
  [event |-> "log", running |-> FALSE, command |-> <<>>, line |-> text]

LogEvents(lines) == [i \in 1..Len(lines) |-> LogEvent(lines[i])]

\* runnerStatus(); startedAt is a clock reading and is left out
runnerStatus == StatusEvent(runner)

\* a broadcastEvent that stops at the first connection that has closed
broadcastEvent_StopsAtClosed(events) ==
  LET closedAt == {i \in 1..Len(logClients) : conn[logClients[i]] # "open"}
      reach == IF closedAt = {} THEN Len(logClients)
               ELSE (CHOOSE i \in closedAt : \A k \in closedAt : i <= k) - 1
  IN  /\ inbox' = [s \in Subscribers |->
                     IF \E i \in 1..reach : logClients[i] = s
                     THEN inbox[s] \o events
                     ELSE inbox[s]]
      /\ lastEvents' = events

\* broadcastEvent for each event of a handler, in order: res.write to every
\* member of logClients; what is written to a closed connection is lost
broadcastEvent(events) ==
  /\ inbox' = [s \in Subscribers |->
                 IF (\E i \in 1..Len(logClients) : logClients[i] = s)
                    /\ conn[s] = "open"
                 THEN inbox[s] \o events
                 ELSE inbox[s]]
  /\ lastEvents' = events

\* an appendLog without the test that skips empty lines
appendLog_KeepsEmpty(chunk, after, run) ==
  LET lines == splitLines(chunk)
  IN  /\ logBuffer' = pushLines(logBuffer, lines)
      /\ broadcastEvent(LogEvents(lines) \o after)
      /\ emitted' = emitted + Len(lines)
      /\ lastRun' = IF Len(lines) > 0 THEN run ELSE 0

\* appendLog(chunk), followed by the status broadcasts of the same handler
appendLog(chunk, after, run) ==
  LET lines == logLines(chunk)
  IN  /\ logBuffer' = pushLines(logBuffer, lines)
      /\ broadcastEvent(LogEvents(lines) \o after)
      /\ emitted' = emitted + Len(lines)
      /\ lastRun' = IF Len(lines) > 0 THEN run ELSE 0

(***************************************************************************)
(* The server: runner supervisor.                                          *)
(***************************************************************************)
\* what POST /api/runner/start is called with
Commands == {<<" ">>, <<"r">>}
ArgLists == {<<>>}

\* what a child writes to its stdout or stderr
Chunks == {<<"h", "i", NL>>}

RECURSIVE joinSpace(_)
joinSpace(items) ==
  IF Len(items) = 0 THEN <<>>
  ELSE IF Len(items) = 1 THEN items[1]
  ELSE items[1] \o <<" ">> \o joinSpace(Tail(items))

\* `> ${command} ${spawnArgs.join(" ")}`.trim()
StartLine(command, args) ==
  trim(<<">", " ">> \o command \o <<" ">> \o joinSpace(args))

ExitLine(code, signal) ==
  <<"[process exited code=", code, " signal=", signal, "]">>

ErrorLine == <<"[process error] ", "spawn ENOENT">>

\* the children spawned so far are 1..Spawned
Spawned == Cardinality({id \in 1..MaxStarts : children[id].state # "none"})

\* child.kill(signal): the signal is sent when the handle is still there,
\* and a signal that was sent sets child.killed
kill(child, signal) ==
  IF child.handle
  THEN [child EXCEPT !.killed = TRUE,
                     !.sigterm = @ \/ signal = "SIGTERM",
                     !.sigkill = @ \/ signal = "SIGKILL"]
  ELSE child

\* the frame of a step of the server's runner and fan-out
ClientUnchanged ==
  UNCHANGED <<clientVars, serverVars, histVars, progressVars, lifeVars,
              apiVars, extraVars>>

\* a startRunner without the test of runner?.child
startRunner_NoActiveTest(command, args, spawns, traps) ==
  IF ~IsNonBlank(command)
  THEN /\ lastReq' = [op |-> "start", command |-> command,
                      active |-> runner.child # 0,
                      result |-> "command is required"]
       /\ lastEvents' = <<>>
       /\ lastRun' = 0
       /\ UNCHANGED <<runner, children, logBuffer, inbox, emitted>>
  ELSE
    LET id == Spawned + 1
        record == [child |-> id, command |-> command, args |-> args]
        line == StartLine(command, args)
    IN  /\ id <= MaxStarts
        /\ runner' = record
        /\ lastReq' = [op |-> "start", command |-> command,
                       active |-> runner.child # 0, result |-> "ok"]
        /\ children' = [children EXCEPT ![id] =
                          [NoChild EXCEPT !.state = "running",
                                          !.handle = TRUE,
                                          !.trapsTerm = traps]]
        /\ appendLog(line, <<StatusEvent(record)>>, id)

\* a startRunner that logs the command before it tests it
startRunner_LogsBlank(command, args, spawns, traps) ==
  IF runner.child # 0
  THEN /\ lastReq' = [op |-> "start", command |-> command, active |-> TRUE,
                      result |-> "Runner already active"]
       /\ lastEvents' = <<>>
       /\ lastRun' = 0
       /\ UNCHANGED <<runner, children, logBuffer, inbox, emitted>>
  ELSE IF ~IsNonBlank(command)
  THEN /\ lastReq' = [op |-> "start", command |-> command, active |-> FALSE,
                      result |-> "command is required"]
       /\ appendLog(<<">", " ">> \o command, <<>>, 0)
       /\ UNCHANGED <<runner, children>>
  ELSE
    LET id == Spawned + 1
        record == [child |-> id, command |-> command, args |-> args]
        line == StartLine(command, args)
    IN  /\ id <= MaxStarts
        /\ runner' = record
        /\ lastReq' = [op |-> "start", command |-> command,
                       active |-> FALSE, result |-> "ok"]
        /\ IF spawns
           THEN /\ children' = [children EXCEPT ![id] =
                                  [NoChild EXCEPT !.state = "running",
                                                  !.handle = TRUE,
                                                  !.trapsTerm = traps]]
                /\ appendLog(line, <<StatusEvent(record)>>, id)
           ELSE /\ children' = [children EXCEPT ![id] =
                                  [NoChild EXCEPT !.state = "failed",
                                                  !.errorSeen = TRUE]]
                /\ logBuffer' = pushLines(logBuffer,
                                   logLines(line) \o logLines(ErrorLine))
                /\ broadcastEvent(LogEvents(logLines(line))
                                    \o <<StatusEvent(record)>>
                                    \o LogEvents(logLines(ErrorLine)))
                /\ emitted' = emitted + Len(logLines(line))
                                + Len(logLines(ErrorLine))
                /\ lastRun' = id

\* a startRunner that broadcasts the status before it echoes the invocation
startRunner_StatusFirst(command, args, spawns, traps) ==
  IF runner.child # 0
  THEN /\ lastReq' = [op |-> "start", command |-> command, active |-> TRUE,
                      result |-> "Runner already active"]
       /\ lastEvents' = <<>>
       /\ lastRun' = 0
       /\ UNCHANGED <<runner, children, logBuffer, inbox, emitted>>
  ELSE IF ~IsNonBlank(command)
  THEN /\ lastReq' = [op |-> "start", command |-> command, active |-> FALSE,
                      result |-> "command is required"]
       /\ lastEvents' = <<>>
       /\ lastRun' = 0
       /\ UNCHANGED <<runner, children, logBuffer, inbox, emitted>>
  ELSE
    LET id == Spawned + 1
        record == [child |-> id, command |-> command, args |-> args]
        line == StartLine(command, args)
    IN  /\ id <= MaxStarts
        /\ runner' = record
        /\ lastReq' = [op |-> "start", command |-> command,
                       active |-> FALSE, result |-> "ok"]
        /\ IF spawns
           THEN /\ children' = [children EXCEPT ![id] =
                                  [NoChild EXCEPT !.state = "running",
                                                  !.handle = TRUE,
                                                  !.trapsTerm = traps]]
                /\ logBuffer' = pushLines(logBuffer, logLines(line))
                /\ broadcastEvent(<<StatusEvent(record)>>
                                    \o LogEvents(logLines(line)))
                /\ emitted' = emitted + Len(logLines(line))
                /\ lastRun' = id
           ELSE /\ children' = [children EXCEPT ![id] =
                                  [NoChild EXCEPT !.state = "failed",
                                                  !.errorSeen = TRUE]]
                /\ logBuffer' = pushLines(logBuffer,
                                   logLines(line) \o logLines(ErrorLine))
                /\ broadcastEvent(LogEvents(logLines(line))
                                    \o <<StatusEvent(record)>>
                                    \o LogEvents(logLines(ErrorLine)))
                /\ emitted' = emitted + Len(logLines(line))
                                + Len(logLines(ErrorLine))
                /\ lastRun' = id

\* startRunner, and for a spawn that fails the 'error' event that the next
\* tick emits before any other callback runs
startRunner(command, args, spawns, traps) ==
  IF runner.child # 0
  THEN /\ lastReq' = [op |-> "start", command |-> command, active |-> TRUE,
                      result |-> "Runner already active"]
       /\ lastEvents' = <<>>
       /\ lastRun' = 0
       /\ UNCHANGED <<runner, children, logBuffer, inbox, emitted>>
  ELSE IF ~IsNonBlank(command)
  THEN /\ lastReq' = [op |-> "start", command |-> command, active |-> FALSE,
                      result |-> "command is required"]
       /\ lastEvents' = <<>>
       /\ lastRun' = 0
       /\ UNCHANGED <<runner, children, logBuffer, inbox, emitted>>
  ELSE
    LET id == Spawned + 1
        record == [child |-> id, command |-> command, args |-> args]
        line == StartLine(command, args)
    IN  /\ id <= MaxStarts
        /\ runner' = record
        /\ lastReq' = [op |-> "start", command |-> command,
                       active |-> FALSE, result |-> "ok"]
        /\ IF spawns
           THEN /\ children' = [children EXCEPT ![id] =
                                  [NoChild EXCEPT !.state = "running",
                                                  !.handle = TRUE,
                                                  !.trapsTerm = traps]]
                /\ appendLog(line, <<StatusEvent(record)>>, id)
           ELSE /\ children' = [children EXCEPT ![id] =
                                  [NoChild EXCEPT !.state = "failed",
                                                  !.errorSeen = TRUE]]
                /\ logBuffer' = pushLines(logBuffer,
                                   logLines(line) \o logLines(ErrorLine))
                /\ broadcastEvent(LogEvents(logLines(line))
                                    \o <<StatusEvent(record)>>
                                    \o LogEvents(logLines(ErrorLine)))
                /\ emitted' = emitted + Len(logLines(line))
                                + Len(logLines(ErrorLine))
                /\ lastRun' = id

\* POST /api/runner/start
StartRequest ==
  \E command \in Commands, args \in ArgLists, spawns, traps \in BOOLEAN :
    /\ startRunner(command, args, spawns, traps)
    /\ UNCHANGED <<timers, logClients, conn>>
    /\ ClientUnchanged

\* a start whose command is a shell script of one or of two lines
Scripts == {<<"r">>, <<"a", NL, "b">>}
ScriptArgs == {<<>>, <<<<"x">>>>}

StartScript ==
  \E command \in Scripts, args \in ScriptArgs, spawns, traps \in BOOLEAN :
    /\ Spawned = 0
    /\ startRunner(command, args, spawns, traps)
    /\ UNCHANGED <<timers, logClients, conn>>
    /\ ClientUnchanged

\* the first start of a server's life
StartOnce ==
  /\ Spawned = 0
  /\ StartRequest

\* stopRunner while fewer than limit grace timers are pending.  The timer
\* holds the child that const child = runner.child named at the stop.
stopRunnerUpTo(limit) ==
  IF runner.child = 0
  THEN /\ lastReq' = [op |-> "stop", command |-> <<>>, active |-> FALSE,
                      result |-> "Runner is not active"]
       /\ UNCHANGED <<children, timers>>
  ELSE /\ BagCardinality(timers) < limit
       /\ children' = [children EXCEPT ![runner.child] = kill(@, "SIGTERM")]
       /\ timers' = timers (+) SetToBag({runner.child})
       /\ lastReq' = [op |-> "stop", command |-> <<>>, active |-> TRUE,
                      result |-> "ok"]

stopRunner == stopRunnerUpTo(MaxTimers)

\* POST /api/runner/stop, also while grace timers of earlier stops run
StopRepeated ==
  /\ stopRunnerUpTo(MaxStops)
  /\ lastEvents' = <<>>
  /\ lastRun' = 0
  /\ UNCHANGED <<runner, logBuffer, logClients, conn, inbox, emitted>>
  /\ ClientUnchanged

\* POST /api/runner/stop
StopRequest ==
  /\ stopRunner
  /\ lastEvents' = <<>>
  /\ lastRun' = 0
  /\ UNCHANGED <<runner, logBuffer, logClients, conn, inbox, emitted>>
  /\ ClientUnchanged

\* the callback stopRunner hands to setTimeout
graceTimeout(child) ==
  IF ~child.killed THEN kill(child, "SIGKILL") ELSE child

\* a grace timer whose callback looks up runner.child when it fires
GraceTimer_ReadsRunner ==
  \E id \in BagToSet(timers) :
    LET now == IF runner.child = 0 THEN id ELSE runner.child
    IN  /\ timers' = timers (-) SetToBag({id})
        /\ children' = [children EXCEPT ![now] =
                          [graceTimeout(@) EXCEPT
                             !.graceAlive =
                               @ \/ children[now].state = "running"]]
        /\ lastReq' = NoReq
        /\ lastEvents' = <<>>
        /\ lastRun' = 0
        /\ UNCHANGED <<runner, logBuffer, logClients, conn, inbox, emitted>>
        /\ ClientUnchanged

\* the 5 s of a grace timer have passed
GraceTimer ==
  \E id \in BagToSet(timers) :
    /\ timers' = timers (-) SetToBag({id})
    /\ children' = [children EXCEPT ![id] =
                      [graceTimeout(@) EXCEPT
                         !.graceAlive = @ \/ children[id].state = "running"]]
    /\ lastReq' = NoReq
    /\ lastEvents' = <<>>
    /\ lastRun' = 0
    /\ UNCHANGED <<runner, logBuffer, logClients, conn, inbox, emitted>>
    /\ ClientUnchanged

\* GET /api/runner/status
StatusRequest ==
  /\ lastReq' = [op |-> "status", command |-> runner.command,
                 active |-> runner.child # 0,
                 result |-> IF runnerStatus.running THEN "running" ELSE "idle"]
  /\ lastReq' # lastReq
  /\ lastEvents' = <<>>
  /\ lastRun' = 0
  /\ UNCHANGED <<runner, children, timers, logBuffer, logClients, conn,
                 inbox, emitted>>
  /\ ClientUnchanged

\* the child writes a chunk to its stdout or stderr pipe
ChildWrites ==
  \E id \in 1..MaxStarts, chunk \in Chunks :
    /\ children[id].state = "running"
    /\ children[id].written < MaxChunks
    /\ children' = [children EXCEPT ![id].pipe = Append(@, chunk),
                                    ![id].written = @ + 1]
    /\ lastReq' = NoReq
    /\ lastEvents' = <<>>
    /\ lastRun' = 0
    /\ UNCHANGED <<runner, timers, logBuffer, logClients, conn, inbox,
                   emitted>>
    /\ ClientUnchanged

\* chunks with an empty line, a line ended by CR LF, a line without an end,
\* or no character other than the line break
LineChunks ==
  {<<"a", CR, NL, NL, "b">>, <<"c", NL, "d", CR>>, <<NL>>}

\* the child writes up to MaxLineChunks such chunks to stdout or stderr; the
\* pipe holds them in the order in which their 'data' events will arrive
ChildWritesLines ==
  \E id \in 1..MaxStarts, chunk \in LineChunks :
    /\ children[id].state = "running"
    /\ children[id].written < MaxLineChunks
    /\ children' = [children EXCEPT ![id].pipe = Append(@, chunk),
                                    ![id].written = @ + 1]
    /\ lastReq' = NoReq
    /\ lastEvents' = <<>>
    /\ lastRun' = 0
    /\ UNCHANGED <<runner, timers, logBuffer, logClients, conn, inbox,
                   emitted>>
    /\ ClientUnchanged

\* child.stdout / child.stderr 'data': appendLog; the pipes may still hold
\* data when 'exit' was emitted
DataEvent ==
  \E id \in 1..MaxStarts :
    /\ Len(children[id].pipe) > 0
    /\ children' = [children EXCEPT ![id].pipe = Tail(@)]
    /\ appendLog(Head(children[id].pipe), <<>>, id)
    /\ lastReq' = NoReq
    /\ UNCHANGED <<runner, timers, logClients, conn>>
    /\ ClientUnchanged

\* the process ends on its own, with code 0
ChildExits ==
  \E id \in 1..MaxStarts :
    /\ children[id].state = "running"
    /\ children' = [children EXCEPT ![id].state = "dead"]
    /\ lastReq' = NoReq
    /\ lastEvents' = <<>>
    /\ lastRun' = 0
    /\ UNCHANGED <<runner, timers, logBuffer, logClients, conn, inbox,
                   emitted>>
    /\ ClientUnchanged

\* a signal that was sent ends the process: SIGKILL always, SIGTERM unless
\* the process traps it
SignalKills ==
  \E id \in 1..MaxStarts, signal \in {"SIGTERM", "SIGKILL"} :
    /\ children[id].state = "running"
    /\ \/ signal = "SIGKILL" /\ children[id].sigkill
       \/ signal = "SIGTERM" /\ children[id].sigterm
                             /\ ~children[id].trapsTerm
    /\ children' = [children EXCEPT ![id].state = "dead",
                                    ![id].signal = signal]
    /\ lastReq' = NoReq
    /\ lastEvents' = <<>>
    /\ lastRun' = 0
    /\ UNCHANGED <<runner, timers, logBuffer, logClients, conn, inbox,
                   emitted>>
    /\ ClientUnchanged

\* child 'exit': the exit line, runner = null, the status event
ExitEvent ==
  \E id \in 1..MaxStarts :
    /\ children[id].state = "dead"
    /\ ~children[id].exitSeen
    /\ children' = [children EXCEPT ![id].exitSeen = TRUE,
                                    ![id].handle = FALSE]
    /\ runner' = NullRunner
    /\ appendLog(ExitLine(IF children[id].signal = "null" THEN "0" ELSE "null",
                          children[id].signal),
                 <<StatusEvent(NullRunner)>>, id)
    /\ lastReq' = NoReq
    /\ UNCHANGED <<timers, logClients, conn>>
    /\ ClientUnchanged

\* a replay that sends the status and forgets the buffer
replay_StatusOnly == <<runnerStatus>>

\* what GET /api/runner/logs writes before it registers the response
replay == <<runnerStatus>> \o LogEvents(logBuffer)

\* the GET /api/runner/logs handler for a new connection s
subscribe(s) ==
  /\ conn[s] = "none"
  /\ conn' = [conn EXCEPT ![s] = "open"]
  /\ inbox' = [inbox EXCEPT ![s] = replay]
  /\ logClients' = Append(logClients, s)
  /\ lastReq' = NoReq
  /\ lastEvents' = <<>>
  /\ lastRun' = 0
  /\ UNCHANGED <<runner, children, timers, logBuffer, emitted>>

\* GET /api/runner/logs
Subscribe ==
  \E s \in Subscribers :
    /\ subscribe(s)
    /\ ClientUnchanged

\* the literal 500 of handleLog
maxShownLines == 500

\* next.slice(-n) when next is longer than n
keepLast(lines, n) ==
  IF Len(lines) > n THEN SubSeq(lines, Len(lines) - n + 1, Len(lines))
  ELSE lines

ParseStatusFailed == <<"Failed to parse runner status.">>
ParseLogFailed == <<"Failed to parse runner logs.">>
StreamLost == <<"Runner log stream disconnected. Retrying...">>

\* the frame of a step of the page's EventSource
PageUnchanged ==
  UNCHANGED <<clientVars, serverVars, histVars, progressVars, lifeVars,
              apiVars, hung, loopVars>>

\* new EventSource(...) at mount, or the retry the browser makes after a
\* lost connection: the request reaches the server, then onopen
StreamOpens ==
  \E s \in Subscribers :
    /\ stream = 0
    /\ \A r \in Subscribers : r < s => conn[r] # "none"
    /\ subscribe(s)
    /\ stream' = s
    /\ seen' = 0
    /\ runnerError' = Null
    /\ UNCHANGED <<runnerLogs, pageStatus>>
    /\ PageUnchanged

\* handleLog on an event whose data parses
handleLog(line) ==
  /\ runnerLogs' = keepLast(Append(runnerLogs, line), maxShownLines)
  /\ UNCHANGED <<runnerError, pageStatus>>

\* handleStatus on an event whose data parses
handleStatus(running, command) ==
  /\ pageStatus' = [running |-> running, command |-> command]
  /\ UNCHANGED <<runnerLogs, runnerError>>

\* the next event of the connection reaches its listener
StreamEvent ==
  /\ stream # 0
  /\ seen < Len(inbox[stream])
  /\ LET e == inbox[stream][seen + 1]
     IN  IF e.event = "log" THEN handleLog(e.line)
         ELSE handleStatus(e.running, e.command)
  /\ seen' = seen + 1
  /\ UNCHANGED <<stream, runnerVars>>
  /\ PageUnchanged

\* an event arrives whose data JSON.parse rejects: the catch blocks
StreamMalformed ==
  \E message \in {ParseStatusFailed, ParseLogFailed} :
    /\ stream # 0
    /\ runnerError # message
    /\ runnerError' = message
    /\ UNCHANGED <<runnerLogs, pageStatus, stream, seen, runnerVars>>
    /\ PageUnchanged

\* the connection is lost: onerror, and the browser will retry; the server
\* sees the close of the request
StreamDrops ==
  /\ stream # 0
  /\ conn' = [conn EXCEPT ![stream] = "closed"]
  /\ stream' = 0
  /\ runnerError' = StreamLost
  /\ lastReq' = NoReq
  /\ lastEvents' = <<>>
  /\ lastRun' = 0
  /\ UNCHANGED <<runnerLogs, pageStatus, seen>>
  /\ UNCHANGED <<runner, children, timers, logBuffer, logClients, inbox,
                 emitted>>
  /\ PageUnchanged

\* one subscriber connects before the first start, and stays
SubscribeOne ==
  /\ \A s \in Subscribers : conn[s] = "none"
  /\ Spawned = 0
  /\ Subscribe

\* the subscriber's connection closes
Disconnect ==
  \E s \in Subscribers :
    /\ conn[s] = "open"
    /\ conn' = [conn EXCEPT ![s] = "closed"]
    /\ lastReq' = NoReq
    /\ lastEvents' = <<>>
    /\ lastRun' = 0
    /\ UNCHANGED <<runner, children, timers, logBuffer, logClients, inbox,
                   emitted>>
    /\ ClientUnchanged

\* req 'close': logClients.delete(res)
CloseEvent ==
  \E s \in Subscribers :
    /\ conn[s] = "closed"
    /\ conn' = [conn EXCEPT ![s] = "gone"]
    /\ logClients' = SelectSeq(logClients, LAMBDA c : c # s)
    /\ lastReq' = NoReq
    /\ lastEvents' = <<>>
    /\ lastRun' = 0
    /\ UNCHANGED <<runner, children, timers, logBuffer, inbox, emitted>>
    /\ ClientUnchanged

\* line n of a long-running child's output
LineOf(n) == NumberToString(n)

\* a 'data' event of a child that numbers its lines: one line, or two with
\* an empty one between them
AppendChunk ==
  \E k \in 1..2 :
    /\ emitted + k <= MaxEmitted
    /\ appendLog(IF k = 1 THEN LineOf(emitted + 1) \o <<NL>>
                 ELSE LineOf(emitted + 1) \o <<CR, NL, NL>>
                        \o LineOf(emitted + 2),
                 <<>>, 0)
    /\ lastReq' = NoReq
    /\ UNCHANGED <<runner, children, timers, logClients, conn>>
    /\ ClientUnchanged

(***************************************************************************)
(* Validation and PUT /api/tasks on documents of any shape: the file can   *)
(* be written by anyone, and the API can be called by anyone.              *)
(***************************************************************************)
\* two branches with one story each
DocC ==
  <<Branch(<<"m">>, <<Story(IdS1, <<"A">>, <<(<<"x">>)>>, 1, FALSE, FALSE, <<>>)>>),
    Branch(<<"d">>, <<Story(IdS2, <<"B">>, <<(<<"y">>)>>, 2, TRUE, FALSE, <<>>)>>)>>

\* what can be wrong with a branch and with a story
BranchDefects == {"name missing", "name blank", "stories missing"}
StoryDefects ==
  {"id missing", "id blank", "title missing", "title blank",
   "criteria missing", "criteria empty", "criteria blank",
   "priority missing", "priority zero", "passes missing"}

dropKey(obj, key) == [obj EXCEPT !.keys = SelectSeq(@, LAMBDA k : k # key)]

spoilBranch(b, defect) ==
  CASE defect = "name missing" ->
         dropKey([b EXCEPT !.branchName = <<>>], "branchName")
    [] defect = "name blank" -> [b EXCEPT !.branchName = <<" ">>]
    [] defect = "stories missing" ->
         dropKey([b EXCEPT !.userStories = <<>>], "userStories")

spoilStory(s, defect) ==
  CASE defect = "id missing" -> dropKey([s EXCEPT !.id = <<>>], "id")
    [] defect = "id blank" -> [s EXCEPT !.id = <<" ">>]
    [] defect = "title missing" -> dropKey([s EXCEPT !.title = <<>>], "title")
    [] defect = "title blank" -> [s EXCEPT !.title = <<>>]
    [] defect = "criteria missing" ->
         dropKey([s EXCEPT !.acceptanceCriteria = <<>>], "acceptanceCriteria")
    [] defect = "criteria empty" -> [s EXCEPT !.acceptanceCriteria = <<>>]
    [] defect = "criteria blank" -> [s EXCEPT !.acceptanceCriteria = <<(<<" ">>)>>]
    [] defect = "priority missing" ->
         dropKey([s EXCEPT !.priority = 0], "priority")
    [] defect = "priority zero" -> [s EXCEPT !.priority = 0]
    [] defect = "passes missing" ->
         dropKey([s EXCEPT !.passes = FALSE], "passes")

\* the places of a document where something can be wrong: <<i, 0, defect>>
\* for branch i, <<i, j, defect>> for story j of branch i
Sites(doc) ==
  {<<i, 0, d>> : i \in 1..Len(doc), d \in BranchDefects}
  \cup UNION {{<<i, j, d>> : j \in 1..Len(doc[i].userStories), d \in StoryDefects} :
                i \in 1..Len(doc)}

spoil(doc, site) ==
  IF site[1] > Len(doc) THEN doc
  ELSE IF site[2] = 0
  THEN [doc EXCEPT ![site[1]] = spoilBranch(@, site[3])]
  ELSE IF site[2] > Len(doc[site[1]].userStories) THEN doc
  ELSE [doc EXCEPT ![site[1]].userStories[site[2]] = spoilStory(@, site[3])]

\* the documents validation and PUT are tried on: none, one or two defects
Candidates ==
  {<<>>, DocA, DocB, DocC}
  \cup UNION {{spoil(doc, s) : s \in Sites(doc)} : doc \in {DocB, DocC}}
  \cup UNION {{spoil(spoil(doc, s), u) : s, u \in Sites(doc)} :
                doc \in {DocB, DocC}}

\* the request bodies a document is sent as: indented, compact, cut off
\* before its last bracket, and empty
BodyTexts(doc) ==
  {formatTasks(doc), stringify(doc),
   SubSeq(stringify(doc), 1, Len(stringify(doc)) - 1), <<>>}

\* JSON.parse does not throw: every bracket that was opened is closed
WellFormed(text) ==
  LET toks == skipWhite(text)
  IN  /\ Len(toks) > 0
      /\ Cardinality({i \in 1..Len(toks) : IsOpen(toks[i])})
           = Cardinality({i \in 1..Len(toks) : IsClose(toks[i])})

\* the useMemo of validationError, or handleSave's first line
ClientValidate ==
  /\ verdict = NotChecked
  /\ verdict' = validateTasksData(candidate)
  /\ UNCHANGED <<candidate, putAnswer>>
  /\ UNCHANGED <<clientVars, serverVars, histVars, progressVars, runnerVars,
                 lifeVars, extraVars>>

\* the message of an error thrown by JSON.parse or by writeFile
Thrown == <<"Error">>

\* what validateTasks returns for a request body (null for an empty body)
bodyError(text) ==
  IF Len(text) = 0 THEN <<"tasks.json must be an array">>
  ELSE validateTasks(JsonParse(text))

\* a PUT handler that writes what JSON.stringify(payload) gives
putTasks_Compact(text, writes) ==
  IF Len(text) > 0 /\ ~WellFormed(text)
  THEN /\ putAnswer' = Answer(500, text, Thrown)
       /\ UNCHANGED file
  ELSE IF Len(text) = 0 \/ validateTasks(JsonParse(text)) # Null
  THEN /\ putAnswer' = Answer(400, text, bodyError(text))
       /\ UNCHANGED file
  ELSE IF writes
  THEN /\ file' = stringify(JsonParse(text))
       /\ putAnswer' = Answer(200, text, Null)
  ELSE /\ putAnswer' = Answer(500, text, Thrown)
       /\ UNCHANGED file

\* the PUT /api/tasks handler on a request body: readJsonBody resolves null
\* for an empty body and rejects when JSON.parse throws (answer 500); then
\* validateTasks (answer 400); then writeFile (answer 200, or 500 when it
\* throws before anything was written)
putTasks(text, writes) ==
  IF Len(text) > 0 /\ ~WellFormed(text)
  THEN /\ putAnswer' = Answer(500, text, Thrown)
       /\ UNCHANGED file
  ELSE IF Len(text) = 0 \/ validateTasks(JsonParse(text)) # Null
  THEN /\ putAnswer' = Answer(400, text, bodyError(text))
       /\ UNCHANGED file
  ELSE IF writes
  THEN /\ file' = fileOf(JsonParse(text))
       /\ putAnswer' = Answer(200, text, Null)
  ELSE /\ putAnswer' = Answer(500, text, Thrown)
       /\ UNCHANGED file

\* PUT /api/tasks with the candidate as its body, sent by any client
ApiPut ==
  \E text \in BodyTexts(candidate), writes \in BOOLEAN :
    /\ putAnswer.n < MaxPuts
    /\ putTasks(text, writes)
    /\ UNCHANGED <<candidate, verdict, polls, saves>>
    /\ UNCHANGED <<clientVars, histVars, progressVars, runnerVars, lifeVars, extraVars>>

Next ==
  \/ LoadTasksFetch
  \/ LoadTasksResponse
  \/ ExternalWrite
  \/ EditTitle
  \/ EditPasses
  \/ EditNotes
  \/ AddStory
  \/ SaveRequest
  \/ ServerPutTasks
  \/ ServerPutFails
  \/ SaveResponse
  \/ Reload

\* The reconciler with its poller and the server's file: the user edits the
\* title, passes and notes of the story the form shows.
Spec == Init /\ [][Next]_vars

(***************************************************************************)
(* The form alone, on a copy that was just loaded: every field of every    *)
(* story can be edited.                                                    *)
(***************************************************************************)
InitForm ==
  /\ tasksData \in {DocA, DocB}
  /\ selectedStoryId = tasksData[1].userStories[1].id
  /\ dirty = FALSE
  /\ locked = FALSE
  /\ dirtyRef = FALSE
  /\ serverTasksRef = formatTasks(tasksData)
  /\ saveState = "idle"
  /\ tasksError = Null
  /\ file = fileOf(tasksData)
  /\ polls = EmptyBag
  /\ saves = EmptyBag
  /\ lastOp = Op("other")
  /\ lastObserved = serverTasksRef
  /\ savedCopy = serverTasksRef
  /\ editHist = NoEdit
  /\ nEdits = 0
  /\ InitProgress
  /\ InitRunner
  /\ InitApi
  /\ InitExtra

NextForm ==
  \/ EditId
  \/ EditTitle
  \/ EditCriteria
  \/ EditPriority
  \/ EditPasses
  \/ EditNotes
  \/ SelectStory

SpecForm == InitForm /\ [][NextForm]_vars

(***************************************************************************)
(* The poller with both of its resources, and a user who edits the title.  *)
(***************************************************************************)
NextPoller ==
  \/ LoadTasksFetch
  \/ LoadTasksResponse
  \/ LoadTasksFail
  \/ ExternalWrite
  \/ EditTitle
  \/ LoadProgressFetch
  \/ LoadProgressResponse
  \/ LoadProgressFail
  \/ ProgressWrite

SpecPoller == Init /\ [][NextPoller]_vars

(***************************************************************************)
(* The server's runner supervisor and log fan-out, with the child          *)
(* processes it spawns and the subscribers of its event stream.            *)
(***************************************************************************)
NextRunner ==
  \/ StartRequest
  \/ StopRequest
  \/ GraceTimer
  \/ ChildWrites
  \/ DataEvent
  \/ ChildExits
  \/ SignalKills
  \/ ExitEvent
  \/ SubscribeOne

SpecRunner == Init /\ [][NextRunner]_vars

(***************************************************************************)
(* The log fan-out with subscribers that come and go, under one run.       *)
(***************************************************************************)
NextFanout ==
  \/ StartOnce
  \/ StatusRequest
  \/ ChildWrites
  \/ DataEvent
  \/ ChildExits
  \/ ExitEvent
  \/ Subscribe
  \/ Disconnect
  \/ CloseEvent

SpecFanout == Init /\ [][NextFanout]_vars

(***************************************************************************)
(* The log buffer under a child that keeps writing.                        *)
(***************************************************************************)
NextLog == AppendChunk

SpecLog == Init /\ [][NextLog]_vars

(***************************************************************************)
(* The validation engine and the PUT endpoint, on a document of any shape. *)
(***************************************************************************)
InitValidate ==
  /\ InitReconciler
  /\ InitProgress
  /\ InitRunner
  /\ polling = TRUE
  /\ candidate \in Candidates
  /\ verdict = NotChecked
  /\ putAnswer = NoAnswer
  /\ InitExtra

NextValidate ==
  \/ ClientValidate
  \/ ApiPut

SpecValidate == InitValidate /\ [][NextValidate]_vars

\* Saving without any other writer of the file: the user edits and saves, the
\* server writes, the answer arrives or is lost, and the poller reads the
\* file back.
NextSave ==
  \/ LoadTasksFetch
  \/ LoadTasksResponse
  \/ EditTitle
  \/ EditPasses
  \/ SaveRequest
  \/ ServerPutTasks
  \/ SaveResponseLost
  \/ SaveResponse

SpecSave == Init /\ [][NextSave]_vars

\* One run whose command and output have several lines, with subscribers
\* that connect at any time.
NextOutput ==
  \/ StartScript
  \/ StatusRequest
  \/ ChildWritesLines
  \/ DataEvent
  \/ ChildExits
  \/ ExitEvent
  \/ Subscribe

SpecOutput == Init /\ [][NextOutput]_vars

\* The poller under a writer that only reformats the file, while the user
\* edits.
NextFormat ==
  \/ LoadTasksFetch
  \/ LoadTasksResponse
  \/ ExternalReformat
  \/ EditTitle
  \/ EditPasses

SpecFormat == Init /\ [][NextFormat]_vars

\* The poller of a component that is unmounted at some time, with writers
\* of both files.
NextUnmount ==
  \/ LoadTasksFetch
  \/ LoadTasksResponse
  \/ LoadProgressFetch
  \/ LoadProgressResponse
  \/ ExternalWrite
  \/ ProgressWrite
  \/ Unmount
  \/ LateTasksResponse
  \/ LateProgressResponse

SpecUnmount == Init /\ [][NextUnmount]_vars

(***************************************************************************)
(* getNextStoryId alone: the Add story button on a working copy whose      *)
(* stories carry any ids of StoryIds.                                      *)
(***************************************************************************)
StoryIds ==
  {<<"A", "-", "1">>, <<"A", "-", "0", "2">>, <<"A", "-", "2", " ">>,
   <<"B", "-", "1">>, StoryPrefix \o <<"-", "7">>, <<>>, <<"x">>,
   <<"A", "-">> \o TwoTo53}

IdLists == UNION {[1..n -> StoryIds] : n \in 0..(MaxIds - 1)}

StoriesWith(ids) ==
  [i \in 1..Len(ids) |->
     Story(ids[i], <<"A">>, <<(<<"x">>)>>, 1, FALSE, FALSE, <<>>)]

InitNextId ==
  /\ \E ids \in IdLists : tasksData = <<Branch(<<"m">>, StoriesWith(ids))>>
  /\ selectedStoryId = IF Len(tasksData[1].userStories) = 0 THEN NullId
                       ELSE tasksData[1].userStories[1].id
  /\ dirty = FALSE
  /\ locked = FALSE
  /\ dirtyRef = FALSE
  /\ serverTasksRef = formatTasks(tasksData)
  /\ saveState = "idle"
  /\ tasksError = Null
  /\ file = fileOf(tasksData)
  /\ polls = EmptyBag
  /\ saves = EmptyBag
  /\ lastOp = Op("other")
  /\ lastObserved = serverTasksRef
  /\ savedCopy = serverTasksRef
  /\ editHist = NoEdit
  /\ nEdits = 0
  /\ InitProgress
  /\ InitRunner
  /\ InitApi
  /\ InitExtra

\* the Add story button, getNextStoryId returning
AddStoryClick ==
  /\ HasActiveBranch
  /\ ~locked
  /\ ~hung
  /\ Len(tasksData[1].userStories) < MaxIds
  /\ handleAddStory
  /\ nEdits' = nEdits + 1
  /\ lastOp' = Op("other")
  /\ editHist' = NoEdit
  /\ UNCHANGED <<locked, serverTasksRef, tasksError, serverVars,
                 lastObserved, savedCopy>>
  /\ UNCHANGED <<progressVars, runnerVars, lifeVars, apiVars, extraVars>>

\* the Add story button, getNextStoryId not returning: the handler stays in
\* the while loop and the page handles no further event
AddStoryHangs ==
  /\ HasActiveBranch
  /\ ~locked
  /\ ~hung
  /\ getNextStoryId(tasksData[1].userStories) = NoReturn
  /\ hung' = TRUE
  /\ UNCHANGED <<clientVars, serverVars, histVars, progressVars, runnerVars,
                 lifeVars, apiVars, viewVars, loopVars>>

NextNextId ==
  \/ AddStoryClick
  \/ AddStoryHangs

SpecNextId == InitNextId /\ [][NextNextId]_vars

(***************************************************************************)
(* Starts and stops alone: a stop, the exit of the child and a new start   *)
(* can all happen while grace timers of earlier stops are pending.         *)
(***************************************************************************)
NextStop ==
  \/ StartRequest
  \/ StopRepeated
  \/ GraceTimer
  \/ ChildExits
  \/ SignalKills
  \/ ExitEvent

SpecStop == Init /\ [][NextStop]_vars

(***************************************************************************)
(* The runner panel of one page: its EventSource connects, handles the     *)
(* events of its connection, loses the connection and connects again,      *)
(* while one run writes its lines.                                         *)
(***************************************************************************)
NextView ==
  \/ StartOnce
  \/ ChildWrites
  \/ DataEvent
  \/ ChildExits
  \/ ExitEvent
  \/ CloseEvent
  \/ StreamOpens
  \/ StreamEvent
  \/ StreamMalformed
  \/ StreamDrops

SpecView == Init /\ [][NextView]_vars

(***************************************************************************)
(* ralph.sh.  The output of the agent is a sequence of lines, a line a     *)
(* sequence of words; Marker is the word <promise>COMPLETE</promise>.      *)
(***************************************************************************)
Marker == "<promise>COMPLETE</promise>"

\* ${2:-10}
DefaultIterations == 10

\* tail -n 10
TailLines == 10

Plain == <<"x">>
Blank == <<>>
Repeat(line, n) == [k \in 1..n |-> line]

\* what codex exec may write: nothing, lines without the marker, the marker
\* alone or inside a line, the marker followed by 9 or by 10 other lines,
\* and the marker followed by empty lines
AgentOutputs ==
  {<<>>,
   <<Plain>>,
   <<Plain, <<Marker>> >>,
   << <<"a", Marker, "b">>, Plain>>,
   << <<Marker>> >> \o Repeat(Plain, TailLines - 1),
   << <<Marker>> >> \o Repeat(Plain, TailLines),
   << <<Marker>> >> \o Repeat(Blank, TailLines),
   << <<Marker>> >> \o Repeat(Plain, TailLines) \o Repeat(Blank, 2)}

\* $(...): the output without its trailing line breaks, that is, without
\* the empty lines at its end
RECURSIVE capture(_)
capture(lines) ==
  IF Len(lines) > 0 /\ lines[Len(lines)] = Blank
  THEN capture(SubSeq(lines, 1, Len(lines) - 1))
  ELSE lines

\* echo "$OUTPUT": the lines of the value, one empty line for the empty value
echoLines(value) == IF Len(value) = 0 THEN <<Blank>> ELSE value

\* a tail that passes every line on
tail_All(lines, n) == lines

\* tail -n
tail(lines, n) ==
  IF Len(lines) > n THEN SubSeq(lines, Len(lines) - n + 1, Len(lines))
  ELSE lines

\* grep -q: some line contains the pattern
grep(lines, pattern) ==
  \E k \in 1..Len(lines) : \E w \in 1..Len(lines[k]) : lines[k][w] = pattern

\* seq 1 n
seq(n) == [k \in 1..n |-> k]

\* the frame of a step of the script
ScriptUnchanged ==
  UNCHANGED <<clientVars, serverVars, histVars, progressVars, runnerVars,
              lifeVars, apiVars, hung, viewVars>>

\* MAX_ITERATIONS=${2:-10}, echo "Starting Ralph", and the word list of for
ScriptStarts ==
  /\ pc = "start"
  /\ MAX_ITERATIONS' = IF arg2 = Unset THEN DefaultIterations ELSE arg2[1]
  /\ said' = "Starting Ralph"
  /\ IF Len(seq(MAX_ITERATIONS')) > 0
     THEN iteration' = seq(MAX_ITERATIONS')[1] /\ pc' = "agent"
     ELSE iteration' = iteration /\ pc' = "end"
  /\ UNCHANGED <<arg2, OUTPUT, exitCode, raw, agentStatus>>
  /\ ScriptUnchanged

\* echo "Iteration $i" and OUTPUT=$(cat ... | codex exec ... | tee ...) ||
\* true: whatever the agent writes and however it exits, the script goes on
AgentRuns ==
  \E lines \in AgentOutputs, status \in {0, 1} :
    /\ pc = "agent"
    /\ said' = "Iteration"
    /\ raw' = lines
    /\ agentStatus' = status
    /\ OUTPUT' = capture(lines)
    /\ pc' = "test"
    /\ UNCHANGED <<arg2, MAX_ITERATIONS, iteration, exitCode>>
    /\ ScriptUnchanged

\* if echo "$OUTPUT" | tail -n 10 | grep -q ...; then echo "Done!"; exit 0
TestOutput ==
  /\ pc = "test"
  /\ IF grep(tail(echoLines(OUTPUT), TailLines), Marker)
     THEN /\ said' = "Done!"
          /\ exitCode' = 0
          /\ pc' = "exited"
     ELSE /\ pc' = "sleep"
          /\ UNCHANGED <<said, exitCode>>
  /\ UNCHANGED <<arg2, MAX_ITERATIONS, iteration, OUTPUT, raw, agentStatus>>
  /\ ScriptUnchanged

\* sleep 2; done: the next word of the list, or the end of the loop
SleepEnds ==
  /\ pc = "sleep"
  /\ IF iteration < Len(seq(MAX_ITERATIONS))
     THEN iteration' = seq(MAX_ITERATIONS)[iteration + 1] /\ pc' = "agent"
     ELSE iteration' = iteration /\ pc' = "end"
  /\ UNCHANGED <<arg2, MAX_ITERATIONS, OUTPUT, exitCode, said, raw,
                 agentStatus>>
  /\ ScriptUnchanged

\* echo "Max iterations reached"; exit 1
MaxReached ==
  /\ pc = "end"
  /\ said' = "Max iterations reached"
  /\ exitCode' = 1
  /\ pc' = "exited"
  /\ UNCHANGED <<arg2, MAX_ITERATIONS, iteration, OUTPUT, raw, agentStatus>>
  /\ ScriptUnchanged

ScriptArgs2 == {Unset} \cup {<<n>> : n \in 0..MaxArg}

InitLoop ==
  /\ InitReconciler
  /\ InitProgress
  /\ InitRunner
  /\ InitApi
  /\ InitPage
  /\ InitScript(ScriptArgs2)

NextLoop ==
  \/ ScriptStarts
  \/ AgentRuns
  \/ TestOutput
  \/ SleepEnds
  \/ MaxReached

SpecLoop == InitLoop /\ [][NextLoop]_vars

\* the shell runs the next command, and a run of the agent ends
SpecLoopFair == SpecLoop /\ WF_vars(NextLoop)

(***************************************************************************)
(* Properties.                                                             *)
(***************************************************************************)
SnapshotStep == lastOp'.op = "serverTasks"

\* C1: a server snapshot never replaces a working copy that holds local
\* edits which were not saved (reload, after a lock, is the only way to
\* discard them).
C1_UnsavedEditsNotOverwritten ==
  [][(SnapshotStep /\ tasksData' # tasksData)
       => formatTasks(tasksData) = savedCopy]_vars

C3_ReloadYieldsLastSnapshot ==
  lastOp.op = "reload" =>
    /\ formatTasks(tasksData) = serverTasksRef
    /\ serverTasksRef = lastObserved
    /\ ~dirty
    /\ ~locked

C3_Witness ==
  /\ lastOp.op = "reload"
  /\ Len(tasksData) > 0
  /\ savedCopy = lastObserved

\* C4: in every reachable state (here: once a snapshot was recorded) dirty
\* is true exactly when the serialized working copy differs from
\* lastServerSnapshot.
C4_DirtyIffDiffers ==
  serverTasksRef # <<>> =>
    (dirty <=> formatTasks(tasksData) # serverTasksRef)

\* C5: from a synced state, editing a story field and then editing it back
\* to the value it showed leaves dirty false.
C5_RevertClearsDirty ==
  editHist.phase = "reverted" => ~dirty

\* C6: a save is issued only when the reconciler is not locked, is dirty and
\* the working copy passes validation; the server's write stores the body of
\* such a request and nothing else.
C6_SaveOnlyWhenPermitted ==
  [][/\ BagCardinality(saves') > BagCardinality(saves)
          => (~locked /\ dirty /\ validateTasksData(tasksData) = Null)
     /\ (file' # file /\ saves' # saves)
          => \E s \in BagToSet(saves) :
               /\ file' = fileOf(s.body)
               /\ validateTasksData(s.body) = Null]_vars

C6_Witness ==
  \E s \in BagToSet(saves) : s.st = "ok" /\ file = fileOf(s.body)

\* C7: after a successful save response the working copy serializes to
\* lastServerSnapshot and dirty is false, whatever happened between the
\* request and the response.
C7_SaveLeavesCopySynced ==
  lastOp.op = "saveOk" =>
    (formatTasks(tasksData) = serverTasksRef /\ ~dirty)

\* C8: in Editing (dirty, not locked) a snapshot that differs from
\* lastServerSnapshot locks, is recorded as lastServerSnapshot, and leaves
\* the working copy and dirty unchanged.
C8_EditingSnapshotLocks ==
  [][(SnapshotStep /\ dirty /\ ~locked /\ lastObserved' # serverTasksRef)
       => /\ locked'
          /\ serverTasksRef' = lastObserved'
          /\ tasksData' = tasksData
          /\ dirty' = dirty]_vars

C8_Witness ==
  /\ lastOp = [op |-> "serverTasks", was |-> "Editing", changed |-> TRUE]
  /\ locked
  /\ dirty
  /\ serverTasksRef = lastObserved

C11_NoopPollChangesNothing ==
  [][/\ (SnapshotStep /\ polls' # polls /\ lastObserved' = serverTasksRef)
          => UNCHANGED <<tasksData, dirty, locked, serverTasksRef>>
     /\ \A text \in BagToSet(progressPolls) :
          (/\ lastOp'.op = "progress"
           /\ progressPolls' = progressPolls (-) SetToBag({text})
           /\ text = progressRef)
            => (~forwarded' /\ UNCHANGED <<progress, progressRef>>)]_vars

C11_Witness ==
  /\ lastOp = [op |-> "serverTasks", was |-> "Editing", changed |-> FALSE]
  /\ dirty
  /\ ~locked
  /\ progressRef # ""
  /\ progress = progressRef
  /\ ~forwarded

C13_SingleInstance ==
  [][/\ (/\ lastReq'.op = "start"
         /\ \E id \in 1..MaxStarts : children[id].state = "running")
          => /\ lastReq'.result = "Runner already active"
             /\ children' = children
             /\ runner' = runner
     /\ Cardinality({id \in 1..MaxStarts :
                       children'[id].state = "running"}) <= 1]_vars

C13_Witness ==
  /\ lastReq.op = "start"
  /\ lastReq.result = "Runner already active"
  /\ children[1].exitSeen
  /\ children[2].state = "running"

\* C14: a stop with no active record answers "Runner is not active", a
\* start with a blank command or with an active record answers with an
\* error, and a request answered with an error leaves the runner record, the
\* children, the timers, the log buffer and the subscribers as they were and
\* broadcasts nothing.
C14_FailedRequestChangesNothing ==
  [][/\ (lastReq'.op = "stop" /\ runner.child = 0)
          => lastReq'.result = "Runner is not active"
     /\ (/\ lastReq'.op = "start"
         /\ (runner.child # 0 \/ ~IsNonBlank(lastReq'.command)))
          => lastReq'.result \in {"Runner already active",
                                  "command is required"}
     /\ (lastReq'.op \in {"start", "stop"} /\ lastReq'.result # "ok")
          => /\ UNCHANGED <<runner, children, timers, logBuffer, logClients,
                            conn, inbox, emitted>>
             /\ lastEvents' = <<>>]_vars

C14_Witness ==
  /\ lastReq.op = "stop"
  /\ lastReq.result = "Runner is not active"
  /\ Len(logBuffer) > 0
  /\ \E s \in Subscribers : conn[s] = "open"

\* C15: a successful stop sends SIGTERM to the child at once, and a child
\* that is still running when the grace period has passed is sent SIGKILL.
C15_GraceThenKill ==
  [][/\ (/\ lastReq'.op = "stop"
         /\ lastReq'.result = "ok"
         /\ children[runner.child].state = "running")
          => children'[runner.child].sigterm
     /\ \A id \in 1..MaxStarts :
          children'[id].graceAlive => children'[id].sigkill]_vars

\* C16: once a child is gone (it exited and 'exit' was handled, or it failed
\* to spawn and the error was logged) it is not the active record any more:
\* status reports running=false or a later run.
C16_NoRecordOnceChildGone ==
  \A id \in 1..MaxStarts :
    (\/ children[id].state = "dead" /\ children[id].exitSeen
     \/ children[id].state = "failed" /\ children[id].errorSeen)
      => runner.child # id

\* C17: the 'exit' of a child appends and broadcasts the exit line, clears
\* the record and then broadcasts the idle status, every subscriber gets
\* the two events in that order, and no line of that run follows the exit
\* line.
C17_ExitLineIsLast ==
  [][\A id \in 1..MaxStarts :
       /\ (~children[id].exitSeen /\ children'[id].exitSeen)
            => LET line == ExitLine(IF children[id].signal = "null"
                                    THEN "0" ELSE "null",
                                    children[id].signal)
               IN  /\ lastEvents' = <<LogEvent(line), StatusEvent(NullRunner)>>
                   /\ runner' = NullRunner
                   /\ ~runnerStatus'.running
                   /\ logBuffer'[Len(logBuffer')] = line
                   /\ \A s \in Subscribers :
                        conn[s] = "open"
                          => inbox'[s] = inbox[s] \o lastEvents'
       /\ (children[id].exitSeen => lastRun' # id)]_vars

\* C18: the log buffer never holds more than 500 lines, and it holds the
\* most recent ones in the order they were emitted: all of them up to 500,
\* the last 500 afterwards.
C18_LogBufferBound ==
  LET kept == IF emitted <= maxLogLines THEN emitted ELSE maxLogLines
  IN  /\ Len(logBuffer) <= maxLogLines
      /\ logBuffer = [i \in 1..kept |-> LineOf(emitted - kept + i)]

C18_Witness ==
  /\ emitted > maxLogLines + 1
  /\ Len(logBuffer) = maxLogLines
  /\ logBuffer[1] = LineOf(emitted - maxLogLines + 1)
  /\ logBuffer[maxLogLines] = LineOf(emitted)

\* C19: a subscriber that connects is sent the current status and then one
\* log event per line of the buffer, oldest first, and is registered in the
\* same step; from then on each step adds to what it received exactly the
\* events of that step, in order.
C19_ReplayThenLive ==
  [][\A s \in Subscribers :
       /\ (conn[s] = "none" /\ conn'[s] = "open")
            => /\ inbox'[s] = <<StatusEvent(runner)>>
                                \o [i \in 1..Len(logBuffer) |->
                                      LogEvent(logBuffer[i])]
               /\ \E i \in 1..Len(logClients') : logClients'[i] = s
       /\ (conn[s] = "open" /\ conn'[s] = "open")
            => inbox'[s] = inbox[s] \o lastEvents']_vars

C19_Witness ==
  \E s \in Subscribers :
    /\ conn[s] = "open"
    /\ Len(inbox[s]) >= 5
    /\ inbox[s][1].event = "status"
    /\ inbox[s][1].running
    /\ inbox[s][2] = LogEvent(logBuffer[1])
    /\ inbox[s][Len(inbox[s])] = StatusEvent(NullRunner)
    /\ Len(inbox[s]) = Len(logBuffer) + 2

\* C20: the events of a step are written, in order, to every subscriber
\* that is registered, whatever the state of the others; a subscriber whose
\* connection closed receives nothing more and is removed by its 'close'.
C20_FanoutToAll ==
  [][\A s \in Subscribers :
       /\ (/\ \E i \in 1..Len(logClients) : logClients[i] = s
           /\ conn[s] = "open"
           /\ conn'[s] = "open")
            => SubSeq(inbox'[s], Len(inbox[s]) + 1, Len(inbox'[s]))
                 = lastEvents'
       /\ conn[s] \in {"closed", "gone"} => inbox'[s] = inbox[s]
       /\ (conn[s] = "closed" /\ conn'[s] = "gone")
            => ~\E i \in 1..Len(logClients') : logClients'[i] = s]_vars

C20_Witness ==
  \E s, u \in Subscribers :
    /\ logClients = <<s, u>>
    /\ conn[s] = "closed"
    /\ conn[u] = "open"
    /\ Len(lastEvents) > 0
    /\ Len(inbox[u]) > Len(inbox[s])
\* C21: a failed fetch of one resource sets the error of that resource only:
\* it leaves the state and the error of the other resource as they were and
\* leaves the interval running, so that both resources are fetched again.
C21_FailuresArePerResource ==
  [][/\ (lastOp'.op = "tasksFail" /\ lastOp.op # "tasksFail")
          => /\ tasksError' # Null
             /\ polling'
             /\ UNCHANGED <<progressFile, progressPolls, progressRef, progress,
                            progressError>>
     /\ (lastOp'.op = "progressFail" /\ lastOp.op # "progressFail")
          => /\ progressError' # Null
             /\ polling'
             /\ UNCHANGED <<file, polls, tasksData, dirty, locked,
                            serverTasksRef, tasksError>>]_vars

C21_Witness ==
  /\ lastOp.op = "tasksFail"
  /\ tasksError # Null
  /\ serverTasksRef # <<>>
  /\ progressError = Null
  /\ progress = "one two"
  /\ polling
\* the positions of a document, in document order: <<i, 0>> is branch i,
\* <<i, j>> is story j of branch i
Before(p, q) == p[1] < q[1] \/ (p[1] = q[1] /\ p[2] < q[2])

\* the positions at which a required field is missing
MissingAt(doc) ==
  {<<i, 0>> : i \in {b \in 1..Len(doc) :
                       ~has(doc[b], "branchName") \/ ~has(doc[b], "userStories")}}
  \cup UNION {{<<i, j>> : j \in {s \in 1..Len(doc[i].userStories) :
                                  \E k \in 1..Len(StoryKeys) :
                                    ~has(doc[i].userStories[s], StoryKeys[k])}} :
                i \in 1..Len(doc)}

\* the position an error message names
NamedPosition(error) ==
  IF error[1] = "Branch" THEN <<error[2], 0>>
  ELSE IF error[1] = "Story" THEN <<error[2], error[3]>>
  ELSE <<0, 0>>

\* C22: for a document in which a required field is missing at some
\* position, validateTasksData returns an error (it neither returns null
\* nor throws), and the error names that position or, when the document has
\* an earlier defect, the position of that one.
C22_MissingFieldIsReported ==
  (verdict # NotChecked /\ MissingAt(candidate) # {}) =>
    /\ verdict # Null
    /\ verdict # TypeError
    /\ \E p \in MissingAt(candidate) :
         NamedPosition(verdict) = p \/ Before(NamedPosition(verdict), p)

\* C23: the server's validateTasks accepts a document exactly when the
\* client's validateTasksData accepts it.
C23_ServerValidatesLikeClient ==
  (/\ verdict # NotChecked
   /\ putAnswer.n > 0
   /\ WellFormed(putAnswer.body))
    => (putAnswer.status # 400 <=> verdict = Null)

\* the text is what JSON.stringify(..., null, 2) gives for the tokens of
\* body, followed by one line break: the same tokens in the same order, a
\* line break and two blanks per open bracket before every token except the
\* first, the one after a key, and the bracket that closes an empty array
IsIndentedWithNewline(text, body) ==
  LET n == Len(text)
      toks == SubSeq(text, 1, n - 1)
      depthAt(i) ==
        Cardinality({k \in 1..(i - 1) : IsOpen(toks[k])})
          - Cardinality({k \in 1..(i - 1) : IsClose(toks[k])})
  IN  /\ n > 0
      /\ text[n] = P(NL)
      /\ \A i \in 1..(n - 1) : text[i] # P(NL)
      /\ skipWhite(text) = skipWhite(body)
      /\ \A i \in 1..Len(toks) :
           IF toks[i][1] = "w"
           THEN /\ 1 < i
                /\ i < Len(toks)
                /\ toks[i + 1][1] # "w"
                /\ toks[i][2] = depthAt(i)
                                  - (IF IsClose(toks[i + 1]) THEN 1 ELSE 0)
           ELSE i > 1 =>
                  LET white == toks[i - 1][1] = "w"
                      prev == IF white THEN toks[i - 2] ELSE toks[i - 1]
                  IN  white <=> ~(\/ prev[1] = "k"
                                  \/ IsOpen(prev) /\ IsClose(toks[i]))

\* the body of a PUT fails the server's validation
FailsValidation(text) ==
  Len(text) = 0 \/ validateTasks(JsonParse(text)) # Null

BranchMessages == <<"needs a name.", "needs stories.">>

StoryMessages ==
  <<"needs an ID.", "needs a title.",
    "needs at least one acceptance criterion.",
    "priority must be positive.", "requires a pass/fail value.">>

branchFails(b, k) ==
  IF k = 1 THEN ~has(b, "branchName") \/ ~IsNonBlank(b.branchName)
  ELSE ~has(b, "userStories")

storyFails(s, k) ==
  CASE k = 1 -> ~has(s, "id") \/ ~IsNonBlank(s.id)
    [] k = 2 -> ~has(s, "title") \/ ~IsNonBlank(s.title)
    [] k = 3 -> \/ ~has(s, "acceptanceCriteria")
                \/ \A c \in 1..Len(s.acceptanceCriteria) :
                     ~IsNonBlank(s.acceptanceCriteria[c])
    [] k = 4 -> ~has(s, "priority") \/ s.priority <= 0
    [] OTHER -> ~has(s, "passes")

\* the same for the server's validateTasks
EntryMessages == <<"requires branchName", "requires userStories array">>

ServerStoryMessages ==
  <<"requires id", "requires title", "requires acceptanceCriteria array",
    "requires priority number", "requires passes boolean">>

serverStoryFails(s, k) ==
  CASE k = 1 -> ~has(s, "id") \/ ~IsNonBlank(s.id)
    [] k = 2 -> ~has(s, "title") \/ ~IsNonBlank(s.title)
    [] k = 3 -> ~has(s, "acceptanceCriteria")
    [] k = 4 -> ~has(s, "priority")
    [] OTHER -> ~has(s, "passes")

\* the message is the one of the first check that fails in doc, in document
\* order, with positions counted from base; server says whose checks and
\* messages are meant
NamesFirstOffender(message, doc, base, server) ==
  LET label == IF server THEN "Entry" ELSE "Branch"
      branchTexts == IF server THEN EntryMessages ELSE BranchMessages
      storyTexts == IF server THEN ServerStoryMessages ELSE StoryMessages
      bFails(b, k) == branchFails(b, k)
      sFails(s, k) == IF server THEN serverStoryFails(s, k)
                      ELSE storyFails(s, k)
      storyClean(s) == \A k \in 1..Len(storyTexts) : ~sFails(s, k)
      branchOk(b) == \A k \in 1..Len(branchTexts) : ~bFails(b, k)
      branchClean(b) ==
        /\ branchOk(b)
        /\ \A j \in 1..Len(b.userStories) : storyClean(b.userStories[j])
  IN  \/ \E i \in 1..Len(doc), k \in 1..Len(branchTexts) :
           /\ message = <<label, i - 1 + base, branchTexts[k]>>
           /\ bFails(doc[i], k)
           /\ \A m \in 1..(k - 1) : ~bFails(doc[i], m)
           /\ \A h \in 1..(i - 1) : branchClean(doc[h])
      \/ \E i \in 1..Len(doc) :
           /\ \A h \in 1..(i - 1) : branchClean(doc[h])
           /\ branchOk(doc[i])
           /\ \E j \in 1..Len(doc[i].userStories), k \in 1..Len(storyTexts) :
                /\ message = <<"Story", i - 1 + base, j - 1 + base,
                               storyTexts[k]>>
                /\ sFails(doc[i].userStories[j], k)
                /\ \A m \in 1..(k - 1) : ~sFails(doc[i].userStories[j], m)
                /\ \A g \in 1..(j - 1) : storyClean(doc[i].userStories[g])

\* the message validateTasksData returned names the first offender
ClientNamesFirst ==
  (verdict # NotChecked /\ verdict # Null /\ verdict # TypeError) =>
    \/ verdict = <<"No task branches loaded.">> /\ Len(candidate) = 0
    \/ NamesFirstOffender(verdict, candidate, 1, FALSE)

\* the message in a 400 answer names the first offender, counted from base
ServerNamesFirst(base) ==
  (putAnswer.status = 400 /\ Len(putAnswer.body) > 0) =>
    NamesFirstOffender(putAnswer.error, JsonParse(putAnswer.body), base, TRUE)

readBack(text) == formatTasks(JsonParse(stringify(JsonParse(text))))

\* the server handles the save s in this step and writes
ServerWrote(s) ==
  /\ s.st = "sent"
  /\ saves' = (saves (-) SetToBag({s})) (+) SetToBag({[s EXCEPT !.st = "ok"]})

\* C25: the content a save leaves on disk is the text of the working copy
\* and a line break, so saving the same working copy again leaves the file
\* as it is; and what the poller reads back from the file a save wrote is
\* the snapshot the client recorded for that save, so that poll neither
\* adopts nor locks.
C25_SaveIsIdempotent ==
  [][/\ \A s \in BagToSet(saves) :
          ServerWrote(s) =>
            /\ file' = Append(formatTasks(s.body), P(NL))
            /\ file = Append(formatTasks(s.body), P(NL)) => file' = file
     /\ (lastOp'.op = "saveOk" /\ file' = Append(savedCopy', P(NL)))
          => readBack(file') = serverTasksRef'
     /\ (/\ SnapshotStep
         /\ polls' # polls
         /\ lastOp.op = "saveOk"
         /\ file = Append(savedCopy, P(NL))
         /\ lastObserved' = readBack(file))
          => UNCHANGED <<tasksData, dirty, locked, serverTasksRef>>]_vars

C25_Witness ==
  /\ putAnswer.n > 0
  /\ putAnswer.status = 200
  /\ lastOp.op = "serverTasks"
  /\ ~lastOp.changed
  /\ serverTasksRef = putAnswer.body
  /\ file = Append(serverTasksRef, P(NL))
  /\ lastObserved = readBack(file)
  /\ file # fileOf(DocA)
  /\ ~dirty /\ ~locked

\* the non-empty lines of a text, found by reading it from left to right: a
\* line ends at a line break, and a CR just before the break is not part of it
RECURSIVE scanLines(_, _, _, _)
scanLines(text, i, cur, acc) ==
  IF i > Len(text)
  THEN IF Len(cur) > 0 THEN Append(acc, cur) ELSE acc
  ELSE IF text[i] = NL
  THEN scanLines(text, i + 1, <<>>,
                 IF Len(stripCR(cur)) > 0 THEN Append(acc, stripCR(cur))
                 ELSE acc)
  ELSE scanLines(text, i + 1, Append(cur, text[i]), acc)

NonEmptyLines(text) == scanLines(text, 1, <<>>, <<>>)

\* a start request that spawned a child
StartStep ==
  /\ lastReq'.op = "start"
  /\ runner.child = 0
  /\ runner'.child # 0
  /\ children'[runner'.child].state = "running"

\* what a successful start does apart from the number of echo lines
StartEffects(echo) ==
  /\ lastReq'.result = "ok"
  /\ runner'.command = lastReq'.command
  /\ runnerStatus'.running
  /\ lastEvents' = LogEvents(echo) \o <<runnerStatus'>>
  /\ logBuffer' = logBuffer \o echo
  /\ children'[runner'.child].pipe = <<>>
  /\ \A s \in Subscribers :
       conn[s] = "open" => inbox'[s] = inbox[s] \o lastEvents'

\* a status request made right after a start
StatusAfterStart ==
  (/\ lastReq.op = "start"
   /\ lastReq.result = "ok"
   /\ lastReq'.op = "status")
    => lastReq'.result = "running"

\* C27: a successful start records the command and arguments, appends and
\* broadcasts one log line that echoes the invocation, then broadcasts the
\* running status, and returns without reading any output; a status request
\* right after it reports running.
C27_StartEchoesOneLine ==
  [][/\ StartStep
          => StartEffects(<<StartLine(runner'.command, runner'.args)>>)
     /\ StatusAfterStart]_vars

\* C27 (amended): as C27, but the echo is one log line per non-empty line of
\* the invocation text: one line for a command of one line, several for a
\* command that contains line breaks.
C27_StartEchoesInvocation ==
  [][/\ StartStep
          => /\ StartEffects(NonEmptyLines(StartLine(runner'.command,
                                                     runner'.args)))
             /\ Len(lastEvents') >= 2
     /\ StatusAfterStart]_vars

C27_Witness ==
  /\ lastReq.op = "status"
  /\ lastReq.result = "running"
  /\ runner.command = <<"a", NL, "b">>
  /\ runner.args = <<<<"x">>>>
  /\ \E s \in Subscribers :
       inbox[s] = <<StatusEvent(NullRunner), LogEvent(<<">", " ", "a">>),
                    LogEvent(<<"b", " ", "x">>), runnerStatus>>

\* a 'data' event is handled in this step
DataStep(id) == Len(children'[id].pipe) < Len(children[id].pipe)

\* the lines of the log events in what a subscriber received
LogLinesSeen(s) ==
  LET logs == SelectSeq(inbox[s], LAMBDA e : e.event = "log")
  IN  [i \in 1..Len(logs) |-> logs[i].line]

\* C28: each 'data' event appends the non-empty lines of its chunk to the
\* log buffer and broadcasts one log event per line, in order, and nothing
\* for an empty line; chunks are handled in the order of arrival; and the
\* lines a subscriber connected from the beginning has seen are the lines
\* of the buffer.
C28_OutputLinesOnceInOrder ==
  [][\A id \in 1..MaxStarts :
       DataStep(id) =>
         LET lines == NonEmptyLines(Head(children[id].pipe))
         IN  /\ children'[id].pipe = Tail(children[id].pipe)
             /\ logBuffer' = logBuffer \o lines
             /\ lastEvents' = LogEvents(lines)
             /\ emitted' = emitted + Len(lines)
             /\ \A s \in Subscribers :
                  /\ conn[s] = "open" => inbox'[s] = inbox[s] \o lastEvents'
                  /\ (conn[s] = "open" /\ LogLinesSeen(s) = logBuffer)
                       => LogLinesSeen(s)' = logBuffer']_vars

C28_Witness ==
  /\ logBuffer = <<<<">", " ", "r">>, <<"c">>, <<"d", CR>>, <<"a">>, <<"b">>>>
  /\ \E s \in Subscribers : conn[s] = "open" /\ LogLinesSeen(s) = logBuffer
  /\ emitted = 5

\* two parsed documents say the same: the same branches and stories with
\* the same properties and values, whatever the order of the keys
SameObject(x, y) ==
  /\ {x.keys[i] : i \in 1..Len(x.keys)} = {y.keys[i] : i \in 1..Len(y.keys)}
  /\ [x EXCEPT !.keys = <<>>] = [y EXCEPT !.keys = <<>>]

SameDocument(a, b) ==
  /\ Len(a) = Len(b)
  /\ \A i \in 1..Len(a) :
       /\ Len(a[i].userStories) = Len(b[i].userStories)
       /\ SameObject([a[i] EXCEPT !.userStories = <<>>],
                     [b[i] EXCEPT !.userStories = <<>>])
       /\ \A j \in 1..Len(a[i].userStories) :
            SameObject(a[i].userStories[j], b[i].userStories[j])

\* C30: when the document a poll delivers says the same as the one of the
\* recorded snapshot and differs only in white space, indentation or the
\* order of keys, its snapshot equals the recorded one and the poll neither
\* adopts nor locks.
C30_FormattingIsNoChange ==
  [][(/\ SnapshotStep
      /\ polls' # polls
      /\ JsonParses(serverTasksRef)
      /\ SameDocument(JsonParse(lastObserved'), JsonParse(serverTasksRef)))
       => /\ lastObserved' = serverTasksRef
          /\ UNCHANGED <<tasksData, dirty, locked, serverTasksRef>>]_vars

\* C29: once the poller is stopped no new request is sent, and a response
\* to a request that was in flight changes neither the recorded snapshot,
\* the working copy, dirty, locked nor the progress text.
C29_StopDiscardsInFlight ==
  [][~polling =>
       /\ BagCardinality(polls') <= BagCardinality(polls)
       /\ BagCardinality(progressPolls') <= BagCardinality(progressPolls)
       /\ UNCHANGED <<serverTasksRef, tasksData, dirty, locked, progress>>]_vars

(***************************************************************************)
(* The id of an added story.                                               *)
(***************************************************************************)
\* the stories whose id has the form prefix-digits with this prefix
Sharing(stories, prefix) ==
  {i \in 1..Len(stories) :
     /\ matchStoryId(stories[i].id).matched
     /\ matchStoryId(stories[i].id).prefix = prefix}

\* the prefixes a list of stories shows, STORY when it shows none
DetectedPrefixes(stories) ==
  LET shown == {matchStoryId(stories[i].id).prefix : i \in 1..Len(stories)}
                 \ {<<>>}
  IN  IF shown = {} THEN {StoryPrefix} ELSE shown

\* the numbers of digits the ids of a prefix show, 3 when there is none
ObservedWidths(stories, prefix) ==
  IF Sharing(stories, prefix) = {} THEN {3}
  ELSE {Len(matchStoryId(stories[i].id).number) :
          i \in Sharing(stories, prefix)}

\* the highest numeric suffix among the ids of a prefix, as a numeral
HighestSuffix(stories, prefix) ==
  LET suffixes == {stripZeros(matchStoryId(stories[i].id).number) :
                     i \in Sharing(stories, prefix)}
  IN  IF suffixes = {} THEN <<"0">>
      ELSE CHOOSE h \in suffixes : \A g \in suffixes : ~numLess(h, g)

\* the first id from number n on that no story carries, counting exactly
RECURSIVE pastCollisions(_, _, _, _)
pastCollisions(existing, prefix, width, n) ==
  IF candidateId(prefix, width, n) \in existing
  THEN pastCollisions(existing, prefix, width, numInc(n))
  ELSE candidateId(prefix, width, n)

IsFreshSuccessor(stories, id) ==
  LET existing == {trim(stories[i].id) : i \in 1..Len(stories)}
  IN  /\ id \notin existing
      /\ \E prefix \in DetectedPrefixes(stories) :
           \E width \in ObservedWidths(stories, prefix) :
             id = pastCollisions(existing, prefix, width,
                    numInc(HighestSuffix(stories, prefix)))

\* a click on Add story was handled, or is being handled for ever
AddStoryStep ==
  \/ hung' # hung
  \/ Len(tasksData'[1].userStories) = Len(tasksData[1].userStories) + 1

\* C31: for every list of stories getNextStoryId returns, and the id it
\* returns equals no trimmed id of the list and is a detected prefix, a dash
\* and the number one above the highest numeric suffix among the ids of
\* that prefix, moved up past the ids in use, padded with zeros to an
\* observed width.
C31_NextIdIsFreshSuccessor ==
  [][AddStoryStep =>
       /\ ~hung'
       /\ IsFreshSuccessor(tasksData[1].userStories, selectedStoryId')]_vars

(***************************************************************************)
(* Grace timers and the children they signal.                              *)
(***************************************************************************)
\* a signal was sent to the child in this step
Signalled(id) ==
  \/ children'[id].sigterm # children[id].sigterm
  \/ children'[id].sigkill # children[id].sigkill
  \/ children'[id].killed # children[id].killed

\* the step is a stop of the child: it was the active one
StopOf(id) ==
  /\ lastReq'.op = "stop"
  /\ lastReq'.result = "ok"
  /\ runner.child = id
  /\ timers' = timers (+) SetToBag({id})

\* the step is the firing of a grace timer armed by a stop of the child
TimerOf(id) ==
  /\ BagIn(id, timers)
  /\ timers' = timers (-) SetToBag({id})

\* C32: a signal reaches a child only in a stop called while that child was
\* the active one, or when a grace timer armed by such a stop fires; a timer
\* is armed only for the child active at the stop; and when the timer of a
\* child fires no other child is touched, however many exits, starts and
\* stops happened since.
C32_TimerSignalsOwnChild ==
  [][/\ \A id \in 1..MaxStarts :
          Signalled(id) => (StopOf(id) \/ TimerOf(id))
     /\ \A id \in 1..MaxStarts :
          CopiesIn(id, timers') > CopiesIn(id, timers) => StopOf(id)
     /\ \A id \in 1..MaxStarts :
          (TimerOf(id) /\ lastReq' = NoReq)
            => \A other \in 1..MaxStarts \ {id} :
                 children'[other] = children[other]]_vars

\* the first child was stopped and has exited, the second was started, and
\* then the timer of that stop fired: the second runs without any signal
C32_Witness ==
  /\ children[1].sigterm
  /\ children[1].exitSeen
  /\ runner.child = 2
  /\ children[2].state = "running"
  /\ ~children[2].killed
  /\ ~children[2].sigterm
  /\ ~children[2].sigkill
  /\ timers = EmptyBag
  /\ lastReq = NoReq

(***************************************************************************)
(* The lines the runner panel shows.                                       *)
(***************************************************************************)
\* the page has handled every event written to its open connection
StreamIsCaughtUp ==
  /\ stream # 0
  /\ conn[stream] = "open"
  /\ seen = Len(inbox[stream])

\* C33: while the server has emitted no more lines than its buffer keeps
\* (the buffer is then the whole sequence of emitted lines), the lines the
\* page shows are the last at most 500 lines of the emitted sequence as far
\* as it was delivered: each line once, in order; and they are the last at
\* most 500 of all emitted lines once the page has handled every event of
\* its open connection.  Connections may be lost and opened again, and
\* events that do not parse may arrive.
C33_ShownLogIsRecentLines ==
  emitted <= maxLogLines =>
    /\ \E n \in 0..Len(logBuffer) :
         runnerLogs = keepLast(SubSeq(logBuffer, 1, n), maxShownLines)
    /\ StreamIsCaughtUp => runnerLogs = keepLast(logBuffer, maxShownLines)

(***************************************************************************)
(* The loop of ralph.sh.                                                   *)
(***************************************************************************)
\* the number of iterations asked for
IterationLimit == IF arg2 = Unset THEN DefaultIterations ELSE arg2[1]

\* the position of the last line of an output that is not empty, 0: none
LastNonEmpty(lines) ==
  IF \A k \in 1..Len(lines) : lines[k] = Blank THEN 0
  ELSE CHOOSE k \in 1..Len(lines) :
         /\ lines[k] # Blank
         /\ \A m \in (k + 1)..Len(lines) : lines[m] = Blank

\* the marker stands in one of the last ten lines of an output, the empty
\* lines at its end not counted
MarkerInLastTen(lines) ==
  \E k \in 1..LastNonEmpty(lines) :
    /\ k > LastNonEmpty(lines) - TailLines
    /\ \E w \in 1..Len(lines[k]) : lines[k][w] = Marker

\* the steps of the loop keep to the iterations 1..limit, one run of the
\* agent each; found tells of an output whether it ends the loop
LoopKeepsTo(found) ==
  /\ (pc = "agent" /\ pc' # "agent") => iteration \in 1..IterationLimit
  /\ (pc' = "agent" /\ pc # "agent") => iteration' = iteration + 1
  /\ (pc = "test" /\ pc' # "test") =>
       IF found THEN pc' = "exited" /\ exitCode' = 0 /\ said' = "Done!"
       ELSE exitCode' = -1 /\ pc' # "exited"
  /\ exitCode' # exitCode =>
       /\ exitCode = -1
       /\ exitCode' \in {0, 1}
       /\ exitCode' = 1 =>
            (iteration = IterationLimit /\ said' = "Max iterations reached")

====
